---- MODULE Spec2Model ----
(***************************************************************************)
(* Model of the diffie-hellman-groups crate: modular group arithmetic      *)
(* (group.rs), Element (element.rs), and the generator searches of         *)
(* PrimeGroup (primegroup.rs) and SubGroup (subgroup.rs).                  *)
(*                                                                         *)
(* BigUint is modelled by the naturals.  The RFC 3526 constants (1536 to   *)
(* 8192 bits) are scaled down to small safe primes p with p = 7 (mod 8),   *)
(* which keep what the code relies on: q = (p - 1) / 2 is prime, the       *)
(* generator is 2 and 2^q mod p = 1.                                       *)
(***************************************************************************)
EXTENDS Integers, FiniteSets, Sequences, TLC

\* ------------------------------------------------------------------ bounds
\* requested generator bit lengths are drawn from 0 .. MaxBits
MaxBits == 7
\* moduli handed to PrimeGroup::new_with are drawn from 0 .. MaxP
MaxP == 24
\* exponents handed to Element::from_biguint / Element::pow: 0 .. MaxExp
MaxExp == 5
\* the observation counter of drawn candidates saturates at MaxDraws
MaxDraws == 3
\* the texts handed to Element::from_str have at most MaxStrLen characters
MaxStrLen == 3
\* inside a sequence of Element operations the texts handed to from_str
\* have at most MaxOpsStrLen characters
MaxOpsStrLen == 1
\* the plain BigUints handed to MODPGroup::add / MODPGroup::sub: 0 .. MaxVal
MaxVal == 48

\* a local that is not bound yet (Rust: declared, not initialised)
None == -1

VARIABLES
    \* --- one call of a generator search (primegroup.rs, subgroup.rs)
    pc,        \* "idle" | "loop" | "done" | "panicked" | "exhausted"
    fn,        \* "none" | "PrimeGroup::new" | "PrimeGroup::new_with" | "SubGroup::new"
    G,         \* the type parameter G: MODPGroup of the call (NoGroup for new_with)
    num_bits,  \* the requested generator bit length
    p,         \* local p
    q,         \* local q
    a,         \* the candidate drawn by the current loop iteration
    g,         \* the generator of the returned struct
    err,       \* the assertion that failed: "none" | "InvalidParameters" | "InvalidModulus"
    draws,     \* how many candidates the random source has handed out (saturating)
    \* --- Element arithmetic (element.rs, lib.rs test_key_exchange)
    grp,       \* the type parameter G of Element<G>
    exp_a,     \* exponent a
    exp_b,     \* exponent b
    A,         \* Element::from_biguint(a).value
    B,         \* Element::from_biguint(b).value
    s,         \* B.pow(&a).value
    z,         \* A.pow(&b).value
    lhs        \* (A * B).value

VARIABLES
    \* --- sequences of Element operations (element.rs)
    elems,        \* the Elements a caller holds: register -> value (None: not built)
    via_ring,     \* register -> whether + or - took part in building its value
    op_panicked,  \* an operation aborted on an unsigned underflow
    \* --- Element::from_str (element.rs)
    text,         \* the &str handed to from_str, as its characters
    parsed,       \* "none" | "Ok" | "Err": the Result that came back
    parsed_value, \* the value of the Element inside Ok
    \* --- MODPGroup::add / MODPGroup::sub on plain BigUints (group.rs)
    arg_u,        \* first operand
    arg_v,        \* second operand
    sum,          \* add(u, v)
    back,         \* sub(add(u, v), v)
    diff          \* sub(u, v)

search_vars == <<pc, fn, G, num_bits, p, q, a, g, err, draws>>
element_vars == <<grp, exp_a, exp_b, A, B, s, z, lhs>>
ops_vars == <<elems, via_ring, op_panicked>>
parse_vars == <<text, parsed, parsed_value>>
ring_vars == <<arg_u, arg_v, sum, back, diff>>
vars == <<pc, fn, G, num_bits, p, q, a, g, err, draws,
          grp, exp_a, exp_b, A, B, s, z, lhs,
          elems, via_ring, op_panicked,
          text, parsed, parsed_value,
          arg_u, arg_v, sum, back, diff>>

\* the registers of the callers of the Element operations
Registers == {"X", "Y"}

\* no Element built, nothing parsed, no ring operation applied
ops_idle ==
    /\ elems = [x \in Registers |-> None]
    /\ via_ring = [x \in Registers |-> FALSE]
    /\ op_panicked = FALSE

parse_idle == text = << >> /\ parsed = "none" /\ parsed_value = None

ring_idle ==
    arg_u = 0 /\ arg_v = 0 /\ sum = None /\ back = None /\ diff = None

\* ------------------------------------------------- num_bigint / num_prime
\* BigUint::bits: the number of significant bits, 0 for 0
RECURSIVE bits(_)
bits(n) == IF n = 0 THEN 0 ELSE 1 + bits(n \div 2)

\* 2^n, the size of the range RandomBits::new(n) samples from
RECURSIVE pow2(_)
pow2(n) == IF n = 0 THEN 1 ELSE 2 * pow2(n - 1)

\* BigUint::modpow(exponent, modulus): square and multiply
RECURSIVE modpow(_, _, _)
modpow(base, e, m) ==
    IF m = 1 THEN 0
    ELSE IF e = 0 THEN 1
    ELSE LET h == modpow(base, e \div 2, m)
             sq == (h * h) % m
         IN  IF e % 2 = 0 THEN sq ELSE (sq * (base % m)) % m

is_prime(n) == n >= 2 /\ \A d \in 2 .. (n - 1) : n % d # 0

\* nt_funcs::is_safe_prime(&p) == Primality::Yes: p and p >> 1 are prime
is_safe_prime(n) == is_prime(n) /\ is_prime(n \div 2)

\* ------------------------------------------------------ group.rs: MODPGroup
\* The implementations of the trait: the standard groups scaled down (the
\* first three), and two other implementations of the public trait, one whose
\* generator 2 has order 2q and one whose generator 3 has order q.
Groups ==
    { [p |-> 7,  q |-> 3,  g |-> 2],
      [p |-> 23, q |-> 11, g |-> 2],
      [p |-> 47, q |-> 23, g |-> 2],
      [p |-> 11, q |-> 5,  g |-> 2],
      [p |-> 11, q |-> 5,  g |-> 3] }

NoGroup == [p |-> 0, q |-> 0, g |-> 0]

prime_modulus(grpG) == grpG.p

sophie_garmain_prime(grpG) == grpG.q

generator(grpG) == grpG.g

\* MODPGroup::order, used by SubGroup::new: the order q of the subgroup
order(grpG) == grpG.q

\* the panic of BigUint's `-` when the result would be negative
Underflow == -2

MODPGroup_add_unreduced(grpG, u, v) == u + v

MODPGroup_add(grpG, u, v) == (u + v) % prime_modulus(grpG)

MODPGroup_sub_no_offset(grpG, u, v) ==
    IF u < v THEN Underflow
    ELSE (u - v) % prime_modulus(grpG)

\* (a + Self::prime_modulus() - b) % Self::prime_modulus(): the `-` is
\* BigUint's, which panics when b > a + p
MODPGroup_sub(grpG, u, v) ==
    IF u + prime_modulus(grpG) < v THEN Underflow
    ELSE (u + prime_modulus(grpG) - v) % prime_modulus(grpG)

MODPGroup_mul_unreduced(grpG, u, v) == u * v

MODPGroup_mul(grpG, u, v) == (u * v) % prime_modulus(grpG)

MODPGroup_pow(grpG, u, e) == modpow(u, e, prime_modulus(grpG))

MODPGroup_element(grpG, exponent) == MODPGroup_pow(grpG, generator(grpG), exponent)

\* ------------------------------------------------------------ element.rs
Element_from_biguint(grpG, value) == MODPGroup_element(grpG, value)

Element_pow_as_mul(grpG, self, exponent) == MODPGroup_mul(grpG, self, exponent)

Element_pow(grpG, self, exponent) == MODPGroup_pow(grpG, self, exponent)

Element_mul_as_add(grpG, self, rhs) == MODPGroup_add(grpG, self, rhs)

Element_mul(grpG, self, rhs) == MODPGroup_mul(grpG, self, rhs)

Element_add(grpG, self, rhs) == MODPGroup_add(grpG, self, rhs)

Element_sub(grpG, self, rhs) == MODPGroup_sub(grpG, self, rhs)

\* the characters of the texts: decimal digits, hexadecimal letters, the
\* prefix letter of "0x", signs and the underscore
Alphabet == {"0", "1", "2", "9", "a", "f", "x", "+", "-", "_"}

StringsUpTo(len) == UNION { [1 .. k -> Alphabet] : k \in 0 .. len }

Strings == StringsUpTo(MaxStrLen)

\* the digit value from_str_radix gives a byte: 0-9, a-z as 10-35, u8::MAX
\* for anything else
digit_of(c) ==
    CASE c = "0" -> 0 [] c = "1" -> 1 [] c = "2" -> 2 [] c = "9" -> 9
      [] c = "a" -> 10 [] c = "f" -> 15 [] c = "x" -> 33
      [] OTHER -> 255

\* the value of a sequence of digits in a radix, most significant first
RECURSIVE digits_value(_, _)
digits_value(ds, radix) ==
    IF ds = << >> THEN 0
    ELSE digits_value(SubSeq(ds, 1, Len(ds) - 1), radix) * radix
         + digit_of(ds[Len(ds)])

\* BigUint::from_str(s) = BigUint::from_str_radix(s, 10): one leading '+' is
\* dropped, the empty text and a leading '_' are errors, later '_' are
\* skipped, and every other byte must be a digit below the radix
BigUint_from_str_radix(str, radix) ==
    LET body == IF Len(str) > 0 /\ str[1] = "+" /\ ~(Len(str) > 1 /\ str[2] = "+")
                THEN Tail(str) ELSE str
        NotUnderscore(c) == c # "_"
    IN  IF body = << >> THEN [ok |-> FALSE, value |-> None]
        ELSE IF body[1] = "_" THEN [ok |-> FALSE, value |-> None]
        ELSE IF \E i \in 1 .. Len(body) :
                    body[i] # "_" /\ ~(digit_of(body[i]) < radix)
             THEN [ok |-> FALSE, value |-> None]
        ELSE [ok |-> TRUE,
              value |-> digits_value(SelectSeq(body, NotUnderscore), radix)]

BigUint_from_str_hex(str) == BigUint_from_str_radix(str, 16)

BigUint_from_str(str) == BigUint_from_str_radix(str, 10)

\* impl FromStr for Element: Ok(Element { value: G::element(&BigUint::from_str(s)?) })
Element_from_str(grpG, str) ==
    LET n == BigUint_from_str(str)
    IN  IF n.ok
        THEN [ok |-> TRUE, value |-> MODPGroup_element(grpG, n.value)]
        ELSE [ok |-> FALSE, value |-> None]

\* ---------------------------------------- primegroup.rs / subgroup.rs
\* the assertion of PrimeGroup::new
PrimeGroup_new_assert_no_upper(grpG, nbits) == nbits >= 2

PrimeGroup_new_assert(grpG, nbits) ==
    nbits >= 2 /\ nbits <= bits(prime_modulus(grpG))

\* the assertion of SubGroup::new
SubGroup_new_assert(grpG, nbits) ==
    nbits >= 2 /\ nbits <= bits(order(grpG))

\* the three assertions of PrimeGroup::new_with, in the order they run:
\* the first that fails is the panic
new_with_asserts_from_one(modulus, nbits) ==
    IF ~(nbits >= 1) THEN "InvalidParameters"
    ELSE IF ~(nbits <= bits(modulus)) THEN "InvalidParameters"
    ELSE IF ~is_safe_prime(modulus) THEN "InvalidModulus"
    ELSE "none"

new_with_asserts_prime_only(modulus, nbits) ==
    IF ~(nbits >= 2) THEN "InvalidParameters"
    ELSE IF ~(nbits <= bits(modulus)) THEN "InvalidParameters"
    ELSE IF ~is_prime(modulus) THEN "InvalidModulus"
    ELSE "none"

new_with_asserts(modulus, nbits) ==
    IF ~(nbits >= 2) THEN "InvalidParameters"
    ELSE IF ~(nbits <= bits(modulus)) THEN "InvalidParameters"
    ELSE IF ~is_safe_prime(modulus) THEN "InvalidModulus"
    ELSE "none"

\* rng.sample(RandomBits::new(num_bits)): any value of [0, 2^num_bits)
RandomBits(nbits) == 0 .. (pow2(nbits) - 1)

\* `a != G::generator()`
differs_never_checked(grpG, cand) == TRUE

differs_from_generator_and_one(grpG, cand) ==
    cand # generator(grpG) /\ cand > 1

differs_from_generator(grpG, cand) == cand # generator(grpG)

\* `a.modpow(&q, &p) == 1`
in_subgroup_nonzero(cand, ordq, modulus) == modpow(cand, ordq, modulus) # 0

in_subgroup(cand, ordq, modulus) == modpow(cand, ordq, modulus) = 1

count(n) == IF n < MaxDraws THEN n + 1 ELSE n

Init ==
    /\ pc = "idle" /\ fn = "none" /\ G = NoGroup /\ num_bits = 0
    /\ p = None /\ q = None /\ a = None /\ g = None
    /\ err = "none" /\ draws = 0
    /\ grp = NoGroup /\ exp_a = 0 /\ exp_b = 0
    /\ A = None /\ B = None /\ s = None /\ z = None /\ lhs = None
    /\ ops_idle /\ parse_idle /\ ring_idle

\* PrimeGroup::new::<G>(num_bits), up to the loop
PrimeGroup_new ==
    /\ pc = "idle"
    /\ \E grpG \in Groups, nbits \in 0 .. MaxBits :
        /\ fn' = "PrimeGroup::new" /\ G' = grpG /\ num_bits' = nbits
        /\ p' = prime_modulus(grpG)
        /\ q' = sophie_garmain_prime(grpG)
        /\ IF PrimeGroup_new_assert(grpG, nbits)
           THEN pc' = "loop" /\ err' = "none"
           ELSE pc' = "panicked" /\ err' = "InvalidParameters"
    /\ UNCHANGED <<a, g, draws>>
    /\ UNCHANGED element_vars
    /\ UNCHANGED <<ops_vars, parse_vars, ring_vars>>

\* SubGroup::new::<G>(num_bits), up to the loop
SubGroup_new ==
    /\ pc = "idle"
    /\ \E grpG \in Groups, nbits \in 0 .. MaxBits :
        /\ fn' = "SubGroup::new" /\ G' = grpG /\ num_bits' = nbits
        /\ p' = prime_modulus(grpG)
        /\ q' = order(grpG)
        /\ IF SubGroup_new_assert(grpG, nbits)
           THEN pc' = "loop" /\ err' = "none"
           ELSE pc' = "panicked" /\ err' = "InvalidParameters"
    /\ UNCHANGED <<a, g, draws>>
    /\ UNCHANGED element_vars
    /\ UNCHANGED <<ops_vars, parse_vars, ring_vars>>

\* PrimeGroup::new_with(p, generator_num_bits), up to the loop
PrimeGroup_new_with ==
    /\ pc = "idle"
    /\ \E modulus \in 0 .. MaxP, nbits \in 0 .. MaxBits :
        /\ fn' = "PrimeGroup::new_with" /\ G' = NoGroup /\ num_bits' = nbits
        /\ p' = modulus
        /\ err' = new_with_asserts(modulus, nbits)
        /\ IF err' = "none"
           THEN pc' = "loop" /\ q' = (modulus - 1) \div 2
           ELSE pc' = "panicked" /\ q' = None
    /\ UNCHANGED <<a, g, draws>>
    /\ UNCHANGED element_vars
    /\ UNCHANGED <<ops_vars, parse_vars, ring_vars>>

\* the loop of PrimeGroup::new with an iteration cap of MaxDraws
PrimeGroup_new_loop_capped ==
    /\ pc = "loop" /\ fn = "PrimeGroup::new"
    /\ \E cand \in RandomBits(num_bits) :
        /\ a' = cand
        /\ draws' = count(draws)
        /\ IF draws >= MaxDraws
           THEN pc' = "exhausted" /\ g' = g
           ELSE IF differs_from_generator(G, cand) /\ in_subgroup(cand, q, p)
                THEN pc' = "done" /\ g' = cand
                ELSE pc' = "loop" /\ g' = g
    /\ UNCHANGED <<fn, G, num_bits, p, q, err>>
    /\ UNCHANGED element_vars
    /\ UNCHANGED <<ops_vars, parse_vars, ring_vars>>

\* one iteration of the `loop` of PrimeGroup::new: draw a candidate, test it,
\* break with g = a or go round again
PrimeGroup_new_loop ==
    /\ pc = "loop" /\ fn = "PrimeGroup::new"
    /\ \E cand \in RandomBits(num_bits) :
        /\ a' = cand
        /\ draws' = count(draws)
        /\ IF differs_from_generator(G, cand) /\ in_subgroup(cand, q, p)
           THEN pc' = "done" /\ g' = cand
           ELSE pc' = "loop" /\ g' = g
    /\ UNCHANGED <<fn, G, num_bits, p, q, err>>
    /\ UNCHANGED element_vars
    /\ UNCHANGED <<ops_vars, parse_vars, ring_vars>>

\* one iteration of the `loop` of PrimeGroup::new_with: no comparison with a
\* default generator
PrimeGroup_new_with_loop ==
    /\ pc = "loop" /\ fn = "PrimeGroup::new_with"
    /\ \E cand \in RandomBits(num_bits) :
        /\ a' = cand
        /\ draws' = count(draws)
        /\ IF in_subgroup(cand, q, p)
           THEN pc' = "done" /\ g' = cand
           ELSE pc' = "loop" /\ g' = g
    /\ UNCHANGED <<fn, G, num_bits, p, q, err>>
    /\ UNCHANGED element_vars
    /\ UNCHANGED <<ops_vars, parse_vars, ring_vars>>

\* one iteration of the `loop` of SubGroup::new
SubGroup_new_loop ==
    /\ pc = "loop" /\ fn = "SubGroup::new"
    /\ \E cand \in RandomBits(num_bits) :
        /\ a' = cand
        /\ draws' = count(draws)
        /\ IF differs_from_generator(G, cand) /\ in_subgroup(cand, q, p)
           THEN pc' = "done" /\ g' = cand
           ELSE pc' = "loop" /\ g' = g
    /\ UNCHANGED <<fn, G, num_bits, p, q, err>>
    /\ UNCHANGED element_vars
    /\ UNCHANGED <<ops_vars, parse_vars, ring_vars>>

Next ==
    \/ PrimeGroup_new
    \/ PrimeGroup_new_with
    \/ SubGroup_new
    \/ PrimeGroup_new_loop
    \/ PrimeGroup_new_with_loop
    \/ SubGroup_new_loop

Spec == Init /\ [][Next]_vars

\* the thread that runs a search keeps running its loop
FairSpec ==
    /\ Init /\ [][Next]_vars
    /\ WF_vars(PrimeGroup_new_loop)
    /\ WF_vars(PrimeGroup_new_with_loop)
    /\ WF_vars(SubGroup_new_loop)

\* the test of the loop that is running, applied to a candidate
accepted(cand) ==
    /\ in_subgroup(cand, q, p)
    /\ fn \in {"PrimeGroup::new", "SubGroup::new"} => differs_from_generator(G, cand)

\* the smallest bit length the constructors accept: a sampling range that
\* passed the assertions contains RandomBits(MinBits)
MinBits == 2

\* a fair random source: a value that every sampling range holds keeps being
\* drawn (rng.sample(RandomBits::new(num_bits)) is uniform over the range)
FairDrawSpec ==
    /\ Init /\ [][Next]_vars
    /\ \A cand \in RandomBits(MinBits) :
          /\ WF_vars(PrimeGroup_new_loop /\ a' = cand)
          /\ WF_vars(PrimeGroup_new_with_loop /\ a' = cand)
          /\ WF_vars(SubGroup_new_loop /\ a' = cand)

\* ------------------------------------ Element arithmetic (lib.rs, element.rs)
\* test_key_exchange::<G>() and the doc example of Element, for every group and
\* every pair of exponents of the bounded domain
InitElem ==
    /\ pc = "idle" /\ fn = "none" /\ G = NoGroup /\ num_bits = 0
    /\ p = None /\ q = None /\ a = None /\ g = None
    /\ err = "none" /\ draws = 0
    /\ grp \in Groups /\ exp_a \in 0 .. MaxExp /\ exp_b \in 0 .. MaxExp
    /\ A = None /\ B = None /\ s = None /\ z = None /\ lhs = None
    /\ ops_idle /\ parse_idle /\ ring_idle

\* let A = Element::<G>::from_biguint(a.clone());
from_biguint_A ==
    /\ A = None
    /\ A' = Element_from_biguint(grp, exp_a)
    /\ UNCHANGED <<grp, exp_a, exp_b, B, s, z, lhs>>
    /\ UNCHANGED search_vars
    /\ UNCHANGED <<ops_vars, parse_vars, ring_vars>>

\* let B = Element::<G>::from_biguint(b.clone());
from_biguint_B ==
    /\ B = None
    /\ B' = Element_from_biguint(grp, exp_b)
    /\ UNCHANGED <<grp, exp_a, exp_b, A, s, z, lhs>>
    /\ UNCHANGED search_vars
    /\ UNCHANGED <<ops_vars, parse_vars, ring_vars>>

\* let s = B.pow(&a);
pow_B_a ==
    /\ B # None /\ s = None
    /\ s' = Element_pow(grp, B, exp_a)
    /\ UNCHANGED <<grp, exp_a, exp_b, A, B, z, lhs>>
    /\ UNCHANGED search_vars
    /\ UNCHANGED <<ops_vars, parse_vars, ring_vars>>

\* let z = A.pow(&b);
pow_A_b ==
    /\ A # None /\ z = None
    /\ z' = Element_pow(grp, A, exp_b)
    /\ UNCHANGED <<grp, exp_a, exp_b, A, B, s, lhs>>
    /\ UNCHANGED search_vars
    /\ UNCHANGED <<ops_vars, parse_vars, ring_vars>>

\* let lhs = a * b;  (Mul for Element)
mul_A_B ==
    /\ A # None /\ B # None /\ lhs = None
    /\ lhs' = Element_mul(grp, A, B)
    /\ UNCHANGED <<grp, exp_a, exp_b, A, B, s, z>>
    /\ UNCHANGED search_vars
    /\ UNCHANGED <<ops_vars, parse_vars, ring_vars>>

NextElem ==
    \/ from_biguint_A
    \/ from_biguint_B
    \/ pow_B_a
    \/ pow_A_b
    \/ mul_A_B

SpecElem == InitElem /\ [][NextElem]_vars

\* ------------------------------- sequences of Element operations (element.rs)
\* a caller of Element<G> holds two Elements and builds new ones from them,
\* in any order
InitOps ==
    /\ pc = "idle" /\ fn = "none" /\ G = NoGroup /\ num_bits = 0
    /\ p = None /\ q = None /\ a = None /\ g = None
    /\ err = "none" /\ draws = 0
    /\ grp \in Groups /\ exp_a = 0 /\ exp_b = 0
    /\ A = None /\ B = None /\ s = None /\ z = None /\ lhs = None
    /\ ops_idle /\ parse_idle /\ ring_idle

unchanged_but_ops ==
    /\ UNCHANGED <<search_vars, element_vars, parse_vars, ring_vars>>

\* register := Element::<G>::from_biguint(e)
ops_from_biguint ==
    /\ ~op_panicked
    /\ \E dst \in Registers, e \in 0 .. MaxExp :
        /\ elems' = [elems EXCEPT ![dst] = Element_from_biguint(grp, e)]
        /\ via_ring' = [via_ring EXCEPT ![dst] = FALSE]
    /\ UNCHANGED op_panicked
    /\ unchanged_but_ops

\* register := Element::<G>::from_str(str)?; an Err builds no Element
ops_from_str ==
    /\ ~op_panicked
    /\ \E dst \in Registers, str \in StringsUpTo(MaxOpsStrLen) :
        LET res == Element_from_str(grp, str)
        IN  IF res.ok
            THEN /\ elems' = [elems EXCEPT ![dst] = res.value]
                 /\ via_ring' = [via_ring EXCEPT ![dst] = FALSE]
            ELSE UNCHANGED <<elems, via_ring>>
    /\ UNCHANGED op_panicked
    /\ unchanged_but_ops

\* register := left + right
ops_add ==
    /\ ~op_panicked
    /\ \E dst \in Registers, left \in Registers, right \in Registers :
        /\ elems[left] # None /\ elems[right] # None
        /\ elems' = [elems EXCEPT ![dst] = Element_add(grp, elems[left], elems[right])]
        /\ via_ring' = [via_ring EXCEPT ![dst] = TRUE]
    /\ UNCHANGED op_panicked
    /\ unchanged_but_ops

\* register := left - right; BigUint's `-` panics on a negative result
ops_sub ==
    /\ ~op_panicked
    /\ \E dst \in Registers, left \in Registers, right \in Registers :
        /\ elems[left] # None /\ elems[right] # None
        /\ LET res == Element_sub(grp, elems[left], elems[right])
           IN  IF res = Underflow
               THEN op_panicked' = TRUE /\ UNCHANGED <<elems, via_ring>>
               ELSE /\ elems' = [elems EXCEPT ![dst] = res]
                    /\ via_ring' = [via_ring EXCEPT ![dst] = TRUE]
                    /\ UNCHANGED op_panicked
    /\ unchanged_but_ops

\* register := left * right
ops_mul ==
    /\ ~op_panicked
    /\ \E dst \in Registers, left \in Registers, right \in Registers :
        /\ elems[left] # None /\ elems[right] # None
        /\ elems' = [elems EXCEPT ![dst] = Element_mul(grp, elems[left], elems[right])]
        /\ via_ring' = [via_ring EXCEPT ![dst] = via_ring[left] \/ via_ring[right]]
    /\ UNCHANGED op_panicked
    /\ unchanged_but_ops

\* register := left.pow(&e)
ops_pow ==
    /\ ~op_panicked
    /\ \E dst \in Registers, left \in Registers, e \in 0 .. MaxExp :
        /\ elems[left] # None
        /\ elems' = [elems EXCEPT ![dst] = Element_pow(grp, elems[left], e)]
        /\ via_ring' = [via_ring EXCEPT ![dst] = via_ring[left]]
    /\ UNCHANGED op_panicked
    /\ unchanged_but_ops

NextOps ==
    \/ ops_from_biguint
    \/ ops_from_str
    \/ ops_add
    \/ ops_sub
    \/ ops_mul
    \/ ops_pow

SpecOps == InitOps /\ [][NextOps]_vars

\* ------------------------------------------- Element::from_str (element.rs)
InitParse ==
    /\ pc = "idle" /\ fn = "none" /\ G = NoGroup /\ num_bits = 0
    /\ p = None /\ q = None /\ a = None /\ g = None
    /\ err = "none" /\ draws = 0
    /\ grp \in Groups /\ exp_a = 0 /\ exp_b = 0
    /\ A = None /\ B = None /\ s = None /\ z = None /\ lhs = None
    /\ ops_idle /\ ring_idle
    /\ text \in Strings /\ parsed = "none" /\ parsed_value = None

\* Element::<G>::from_str(text)
from_str ==
    /\ parsed = "none"
    /\ LET res == Element_from_str(grp, text)
       IN  /\ parsed' = IF res.ok THEN "Ok" ELSE "Err"
           /\ parsed_value' = res.value
    /\ UNCHANGED text
    /\ UNCHANGED <<search_vars, element_vars, ops_vars, ring_vars>>

NextParse ==
    \/ from_str

SpecParse == InitParse /\ [][NextParse]_vars

\* ------------------------- MODPGroup::add / MODPGroup::sub on BigUints (group.rs)
\* the two trait functions are public and take any pair of BigUints
InitRing ==
    /\ pc = "idle" /\ fn = "none" /\ G = NoGroup /\ num_bits = 0
    /\ p = None /\ q = None /\ a = None /\ g = None
    /\ err = "none" /\ draws = 0
    /\ grp \in Groups /\ exp_a = 0 /\ exp_b = 0
    /\ A = None /\ B = None /\ s = None /\ z = None /\ lhs = None
    /\ ops_idle /\ parse_idle
    /\ arg_u \in 0 .. MaxVal /\ arg_v \in 0 .. MaxVal
    /\ sum = None /\ back = None /\ diff = None

\* sum = G::add(&u, &v)
ring_add ==
    /\ sum = None
    /\ sum' = MODPGroup_add(grp, arg_u, arg_v)
    /\ UNCHANGED <<arg_u, arg_v, back, diff>>
    /\ UNCHANGED <<search_vars, element_vars, ops_vars, parse_vars>>

\* back = G::sub(&sum, &v)
ring_sub_back ==
    /\ sum # None /\ back = None
    /\ back' = MODPGroup_sub(grp, sum, arg_v)
    /\ UNCHANGED <<arg_u, arg_v, sum, diff>>
    /\ UNCHANGED <<search_vars, element_vars, ops_vars, parse_vars>>

\* diff = G::sub(&u, &v)
ring_sub ==
    /\ diff = None
    /\ diff' = MODPGroup_sub(grp, arg_u, arg_v)
    /\ UNCHANGED <<arg_u, arg_v, sum, back>>
    /\ UNCHANGED <<search_vars, element_vars, ops_vars, parse_vars>>

NextRing ==
    \/ ring_add
    \/ ring_sub_back
    \/ ring_sub

SpecRing == InitRing /\ [][NextRing]_vars

\* ------------------------------------------- group.rs: the RFC 3526 constants
\* BigUint::parse_bytes(b"..", 16): the value as its hexadecimal digits, most
\* significant first (a digit is 0 .. 15)
PRIME_GROUP_5 ==
    <<
       15,15,15,15,15,15,15,15,15,15,15,15,15,15,15,15,12,9,0,15,13,10,10,2,2,1,6,8,12,2,3,4,
       12,4,12,6,6,2,8,11,8,0,13,12,1,12,13,1,2,9,0,2,4,14,0,8,8,10,6,7,12,12,7,4,
       0,2,0,11,11,14,10,6,3,11,1,3,9,11,2,2,5,1,4,10,0,8,7,9,8,14,3,4,0,4,13,13,
       14,15,9,5,1,9,11,3,12,13,3,10,4,3,1,11,3,0,2,11,0,10,6,13,15,2,5,15,1,4,3,7,
       4,15,14,1,3,5,6,13,6,13,5,1,12,2,4,5,14,4,8,5,11,5,7,6,6,2,5,14,7,14,12,6,
       15,4,4,12,4,2,14,9,10,6,3,7,14,13,6,11,0,11,15,15,5,12,11,6,15,4,0,6,11,7,14,13,
       14,14,3,8,6,11,15,11,5,10,8,9,9,15,10,5,10,14,9,15,2,4,1,1,7,12,4,11,1,15,14,6,
       4,9,2,8,6,6,5,1,14,12,14,4,5,11,3,13,12,2,0,0,7,12,11,8,10,1,6,3,11,15,0,5,
       9,8,13,10,4,8,3,6,1,12,5,5,13,3,9,10,6,9,1,6,3,15,10,8,15,13,2,4,12,15,5,15,
       8,3,6,5,5,13,2,3,13,12,10,3,10,13,9,6,1,12,6,2,15,3,5,6,2,0,8,5,5,2,11,11,
       9,14,13,5,2,9,0,7,7,0,9,6,9,6,6,13,6,7,0,12,3,5,4,14,4,10,11,12,9,8,0,4,
       15,1,7,4,6,12,0,8,12,10,2,3,7,3,2,7,15,15,15,15,15,15,15,15,15,15,15,15,15,15,15,15 >>

Q_GROUP_5 ==
    <<
       7,15,15,15,15,15,15,15,15,15,15,15,15,15,15,15,14,4,8,7,14,13,5,1,1,0,11,4,6,1,1,10,
       6,2,6,3,3,1,4,5,12,0,6,14,0,14,6,8,9,4,8,1,2,7,0,4,4,5,3,3,14,6,3,10,
       0,1,0,5,13,15,5,3,1,13,8,9,12,13,9,1,2,8,10,5,0,4,3,12,12,7,1,10,0,2,6,14,
       15,7,12,10,8,12,13,9,14,6,9,13,2,1,8,13,9,8,1,5,8,5,3,6,15,9,2,15,8,10,1,11,
       10,7,15,0,9,10,11,6,11,6,10,8,14,1,2,2,15,2,4,2,13,10,11,11,3,1,2,15,3,15,6,3,
       7,10,2,6,2,1,7,4,13,3,1,11,15,6,11,5,8,5,15,15,10,14,5,11,7,10,0,3,5,11,15,6,
       15,7,1,12,3,5,15,13,10,13,4,4,12,15,13,2,13,7,4,15,9,2,0,8,11,14,2,5,8,15,15,3,
       2,4,9,4,3,3,2,8,15,6,7,2,2,13,9,14,14,1,0,0,3,14,5,12,5,0,11,1,13,15,8,2,
       12,12,6,13,2,4,1,11,0,14,2,10,14,9,12,13,3,4,8,11,1,15,13,4,7,14,9,2,6,7,10,15,
       12,1,11,2,10,14,9,1,14,14,5,1,13,6,12,11,0,14,3,1,7,9,10,11,1,0,4,2,10,9,5,13,
       12,15,6,10,9,4,8,3,11,8,4,11,4,11,3,6,11,3,8,6,1,10,10,7,2,5,5,14,4,12,0,2,
       7,8,11,10,3,6,0,4,6,5,1,1,11,9,9,3,15,15,15,15,15,15,15,15,15,15,15,15,15,15,15,15 >>

PRIME_GROUP_14 ==
    <<
       15,15,15,15,15,15,15,15,15,15,15,15,15,15,15,15,12,9,0,15,13,10,10,2,2,1,6,8,12,2,3,4,
       12,4,12,6,6,2,8,11,8,0,13,12,1,12,13,1,2,9,0,2,4,14,0,8,8,10,6,7,12,12,7,4,
       0,2,0,11,11,14,10,6,3,11,1,3,9,11,2,2,5,1,4,10,0,8,7,9,8,14,3,4,0,4,13,13,
       14,15,9,5,1,9,11,3,12,13,3,10,4,3,1,11,3,0,2,11,0,10,6,13,15,2,5,15,1,4,3,7,
       4,15,14,1,3,5,6,13,6,13,5,1,12,2,4,5,14,4,8,5,11,5,7,6,6,2,5,14,7,14,12,6,
       15,4,4,12,4,2,14,9,10,6,3,7,14,13,6,11,0,11,15,15,5,12,11,6,15,4,0,6,11,7,14,13,
       14,14,3,8,6,11,15,11,5,10,8,9,9,15,10,5,10,14,9,15,2,4,1,1,7,12,4,11,1,15,14,6,
       4,9,2,8,6,6,5,1,14,12,14,4,5,11,3,13,12,2,0,0,7,12,11,8,10,1,6,3,11,15,0,5,
       9,8,13,10,4,8,3,6,1,12,5,5,13,3,9,10,6,9,1,6,3,15,10,8,15,13,2,4,12,15,5,15,
       8,3,6,5,5,13,2,3,13,12,10,3,10,13,9,6,1,12,6,2,15,3,5,6,2,0,8,5,5,2,11,11,
       9,14,13,5,2,9,0,7,7,0,9,6,9,6,6,13,6,7,0,12,3,5,4,14,4,10,11,12,9,8,0,4,
       15,1,7,4,6,12,0,8,12,10,1,8,2,1,7,12,3,2,9,0,5,14,4,6,2,14,3,6,12,14,3,11,
       14,3,9,14,7,7,2,12,1,8,0,14,8,6,0,3,9,11,2,7,8,3,10,2,14,12,0,7,10,2,8,15,
       11,5,12,5,5,13,15,0,6,15,4,12,5,2,12,9,13,14,2,11,12,11,15,6,9,5,5,8,1,7,1,8,
       3,9,9,5,4,9,7,12,14,10,9,5,6,10,14,5,1,5,13,2,2,6,1,8,9,8,15,10,0,5,1,0,
       1,5,7,2,8,14,5,10,8,10,10,12,10,10,6,8,15,15,15,15,15,15,15,15,15,15,15,15,15,15,15,15 >>

Q_GROUP_14 ==
    <<
       7,15,15,15,15,15,15,15,15,15,15,15,15,15,15,15,14,4,8,7,14,13,5,1,1,0,11,4,6,1,1,10,
       6,2,6,3,3,1,4,5,12,0,6,14,0,14,6,8,9,4,8,1,2,7,0,4,4,5,3,3,14,6,3,10,
       0,1,0,5,13,15,5,3,1,13,8,9,12,13,9,1,2,8,10,5,0,4,3,12,12,7,1,10,0,2,6,14,
       15,7,12,10,8,12,13,9,14,6,9,13,2,1,8,13,9,8,1,5,8,5,3,6,15,9,2,15,8,10,1,11,
       10,7,15,0,9,10,11,6,11,6,10,8,14,1,2,2,15,2,4,2,13,10,11,11,3,1,2,15,3,15,6,3,
       7,10,2,6,2,1,7,4,13,3,1,11,15,6,11,5,8,5,15,15,10,14,5,11,7,10,0,3,5,11,15,6,
       15,7,1,12,3,5,15,13,10,13,4,4,12,15,13,2,13,7,4,15,9,2,0,8,11,14,2,5,8,15,15,3,
       2,4,9,4,3,3,2,8,15,6,7,2,2,13,9,14,14,1,0,0,3,14,5,12,5,0,11,1,13,15,8,2,
       12,12,6,13,2,4,1,11,0,14,2,10,14,9,12,13,3,4,8,11,1,15,13,4,7,14,9,2,6,7,10,15,
       12,1,11,2,10,14,9,1,14,14,5,1,13,6,12,11,0,14,3,1,7,9,10,11,1,0,4,2,10,9,5,13,
       12,15,6,10,9,4,8,3,11,8,4,11,4,11,3,6,11,3,8,6,1,10,10,7,2,5,5,14,4,12,0,2,
       7,8,11,10,3,6,0,4,6,5,0,12,1,0,11,14,1,9,4,8,2,15,2,3,1,7,1,11,6,7,1,13,
       15,1,12,15,3,11,9,6,0,12,0,7,4,3,0,1,12,13,9,3,12,1,13,1,7,6,0,3,13,1,4,7,
       13,10,14,2,10,14,15,8,3,7,10,6,2,9,6,4,14,15,1,5,14,5,15,11,4,10,10,12,0,11,8,12,
       1,12,12,10,10,4,11,14,7,5,4,10,11,5,7,2,8,10,14,9,1,3,0,12,4,12,7,13,0,2,8,8,
       0,10,11,9,4,7,2,13,4,5,5,6,5,5,3,4,7,15,15,15,15,15,15,15,15,15,15,15,15,15,15,15 >>

PRIME_GROUP_15 ==
    <<
       15,15,15,15,15,15,15,15,15,15,15,15,15,15,15,15,12,9,0,15,13,10,10,2,2,1,6,8,12,2,3,4,
       12,4,12,6,6,2,8,11,8,0,13,12,1,12,13,1,2,9,0,2,4,14,0,8,8,10,6,7,12,12,7,4,
       0,2,0,11,11,14,10,6,3,11,1,3,9,11,2,2,5,1,4,10,0,8,7,9,8,14,3,4,0,4,13,13,
       14,15,9,5,1,9,11,3,12,13,3,10,4,3,1,11,3,0,2,11,0,10,6,13,15,2,5,15,1,4,3,7,
       4,15,14,1,3,5,6,13,6,13,5,1,12,2,4,5,14,4,8,5,11,5,7,6,6,2,5,14,7,14,12,6,
       15,4,4,12,4,2,14,9,10,6,3,7,14,13,6,11,0,11,15,15,5,12,11,6,15,4,0,6,11,7,14,13,
       14,14,3,8,6,11,15,11,5,10,8,9,9,15,10,5,10,14,9,15,2,4,1,1,7,12,4,11,1,15,14,6,
       4,9,2,8,6,6,5,1,14,12,14,4,5,11,3,13,12,2,0,0,7,12,11,8,10,1,6,3,11,15,0,5,
       9,8,13,10,4,8,3,6,1,12,5,5,13,3,9,10,6,9,1,6,3,15,10,8,15,13,2,4,12,15,5,15,
       8,3,6,5,5,13,2,3,13,12,10,3,10,13,9,6,1,12,6,2,15,3,5,6,2,0,8,5,5,2,11,11,
       9,14,13,5,2,9,0,7,7,0,9,6,9,6,6,13,6,7,0,12,3,5,4,14,4,10,11,12,9,8,0,4,
       15,1,7,4,6,12,0,8,12,10,1,8,2,1,7,12,3,2,9,0,5,14,4,6,2,14,3,6,12,14,3,11,
       14,3,9,14,7,7,2,12,1,8,0,14,8,6,0,3,9,11,2,7,8,3,10,2,14,12,0,7,10,2,8,15,
       11,5,12,5,5,13,15,0,6,15,4,12,5,2,12,9,13,14,2,11,12,11,15,6,9,5,5,8,1,7,1,8,
       3,9,9,5,4,9,7,12,14,10,9,5,6,10,14,5,1,5,13,2,2,6,1,8,9,8,15,10,0,5,1,0,
       1,5,7,2,8,14,5,10,8,10,10,10,12,4,2,13,10,13,3,3,1,7,0,13,0,4,5,0,7,10,3,3,
       10,8,5,5,2,1,10,11,13,15,1,12,11,10,6,4,14,12,15,11,8,5,0,4,5,8,13,11,14,15,0,10,
       8,10,14,10,7,1,5,7,5,13,0,6,0,12,7,13,11,3,9,7,0,15,8,5,10,6,14,1,14,4,12,7,
       10,11,15,5,10,14,8,12,13,11,0,9,3,3,13,7,1,14,8,12,9,4,14,0,4,10,2,5,6,1,9,13,
       12,14,14,3,13,2,2,6,1,10,13,2,14,14,6,11,15,1,2,15,15,10,0,6,13,9,8,10,0,8,6,4,
       13,8,7,6,0,2,7,3,3,14,12,8,6,10,6,4,5,2,1,15,2,11,1,8,1,7,7,11,2,0,0,12,
       11,11,14,1,1,7,5,7,7,10,6,1,5,13,6,12,7,7,0,9,8,8,12,0,11,10,13,9,4,6,14,2,
       0,8,14,2,4,15,10,0,7,4,14,5,10,11,3,1,4,3,13,11,5,11,15,12,14,0,15,13,1,0,8,14,
       4,11,8,2,13,1,2,0,10,9,3,10,13,2,12,10,15,15,15,15,15,15,15,15,15,15,15,15,15,15,15,15 >>

Q_GROUP_15 ==
    <<
       7,15,15,15,15,15,15,15,15,15,15,15,15,15,15,15,14,4,8,7,14,13,5,1,1,0,11,4,6,1,1,10,
       6,2,6,3,3,1,4,5,12,0,6,14,0,14,6,8,9,4,8,1,2,7,0,4,4,5,3,3,14,6,3,10,
       0,1,0,5,13,15,5,3,1,13,8,9,12,13,9,1,2,8,10,5,0,4,3,12,12,7,1,10,0,2,6,14,
       15,7,12,10,8,12,13,9,14,6,9,13,2,1,8,13,9,8,1,5,8,5,3,6,15,9,2,15,8,10,1,11,
       10,7,15,0,9,10,11,6,11,6,10,8,14,1,2,2,15,2,4,2,13,10,11,11,3,1,2,15,3,15,6,3,
       7,10,2,6,2,1,7,4,13,3,1,11,15,6,11,5,8,5,15,15,10,14,5,11,7,10,0,3,5,11,15,6,
       15,7,1,12,3,5,15,13,10,13,4,4,12,15,13,2,13,7,4,15,9,2,0,8,11,14,2,5,8,15,15,3,
       2,4,9,4,3,3,2,8,15,6,7,2,2,13,9,14,14,1,0,0,3,14,5,12,5,0,11,1,13,15,8,2,
       12,12,6,13,2,4,1,11,0,14,2,10,14,9,12,13,3,4,8,11,1,15,13,4,7,14,9,2,6,7,10,15,
       12,1,11,2,10,14,9,1,14,14,5,1,13,6,12,11,0,14,3,1,7,9,10,11,1,0,4,2,10,9,5,13,
       12,15,6,10,9,4,8,3,11,8,4,11,4,11,3,6,11,3,8,6,1,10,10,7,2,5,5,14,4,12,0,2,
       7,8,11,10,3,6,0,4,6,5,0,12,1,0,11,14,1,9,4,8,2,15,2,3,1,7,1,11,6,7,1,13,
       15,1,12,15,3,11,9,6,0,12,0,7,4,3,0,1,12,13,9,3,12,1,13,1,7,6,0,3,13,1,4,7,
       13,10,14,2,10,14,15,8,3,7,10,6,2,9,6,4,14,15,1,5,14,5,15,11,4,10,10,12,0,11,8,12,
       1,12,12,10,10,4,11,14,7,5,4,10,11,5,7,2,8,10,14,9,1,3,0,12,4,12,7,13,0,2,8,8,
       0,10,11,9,4,7,2,13,4,5,5,5,6,2,1,6,13,6,9,9,8,11,8,6,8,2,2,8,3,13,1,9,
       13,4,2,10,9,0,13,5,14,15,8,14,5,13,3,2,7,6,7,13,12,2,8,2,2,12,6,13,15,7,8,5,
       4,5,7,5,3,8,10,11,10,14,8,3,0,6,3,14,13,9,12,11,8,7,12,2,13,3,7,0,15,2,6,3,
       13,5,15,10,13,7,4,6,6,13,8,4,9,9,14,11,8,15,4,6,4,10,7,0,2,5,1,2,11,0,12,14,
       14,7,7,1,14,9,1,3,0,13,6,9,7,7,3,5,15,8,9,7,15,13,0,3,6,12,12,5,0,4,3,2,
       6,12,3,11,0,1,3,9,9,15,6,4,3,5,3,2,2,9,0,15,9,5,8,12,0,11,11,13,9,0,0,6,
       5,13,15,0,8,11,10,11,11,13,3,0,10,14,11,6,3,11,8,4,12,4,6,0,5,13,6,12,10,3,7,1,
       0,4,7,1,2,7,13,0,3,10,7,2,13,5,9,8,10,1,14,13,10,13,15,14,7,0,7,14,8,8,4,7,
       2,5,12,1,6,8,9,0,5,4,9,13,6,9,6,5,7,15,15,15,15,15,15,15,15,15,15,15,15,15,15,15 >>

PRIME_GROUP_16 ==
    <<
       15,15,15,15,15,15,15,15,15,15,15,15,15,15,15,15,12,9,0,15,13,10,10,2,2,1,6,8,12,2,3,4,
       12,4,12,6,6,2,8,11,8,0,13,12,1,12,13,1,2,9,0,2,4,14,0,8,8,10,6,7,12,12,7,4,
       0,2,0,11,11,14,10,6,3,11,1,3,9,11,2,2,5,1,4,10,0,8,7,9,8,14,3,4,0,4,13,13,
       14,15,9,5,1,9,11,3,12,13,3,10,4,3,1,11,3,0,2,11,0,10,6,13,15,2,5,15,1,4,3,7,
       4,15,14,1,3,5,6,13,6,13,5,1,12,2,4,5,14,4,8,5,11,5,7,6,6,2,5,14,7,14,12,6,
       15,4,4,12,4,2,14,9,10,6,3,7,14,13,6,11,0,11,15,15,5,12,11,6,15,4,0,6,11,7,14,13,
       14,14,3,8,6,11,15,11,5,10,8,9,9,15,10,5,10,14,9,15,2,4,1,1,7,12,4,11,1,15,14,6,
       4,9,2,8,6,6,5,1,14,12,14,4,5,11,3,13,12,2,0,0,7,12,11,8,10,1,6,3,11,15,0,5,
       9,8,13,10,4,8,3,6,1,12,5,5,13,3,9,10,6,9,1,6,3,15,10,8,15,13,2,4,12,15,5,15,
       8,3,6,5,5,13,2,3,13,12,10,3,10,13,9,6,1,12,6,2,15,3,5,6,2,0,8,5,5,2,11,11,
       9,14,13,5,2,9,0,7,7,0,9,6,9,6,6,13,6,7,0,12,3,5,4,14,4,10,11,12,9,8,0,4,
       15,1,7,4,6,12,0,8,12,10,1,8,2,1,7,12,3,2,9,0,5,14,4,6,2,14,3,6,12,14,3,11,
       14,3,9,14,7,7,2,12,1,8,0,14,8,6,0,3,9,11,2,7,8,3,10,2,14,12,0,7,10,2,8,15,
       11,5,12,5,5,13,15,0,6,15,4,12,5,2,12,9,13,14,2,11,12,11,15,6,9,5,5,8,1,7,1,8,
       3,9,9,5,4,9,7,12,14,10,9,5,6,10,14,5,1,5,13,2,2,6,1,8,9,8,15,10,0,5,1,0,
       1,5,7,2,8,14,5,10,8,10,10,10,12,4,2,13,10,13,3,3,1,7,0,13,0,4,5,0,7,10,3,3,
       10,8,5,5,2,1,10,11,13,15,1,12,11,10,6,4,14,12,15,11,8,5,0,4,5,8,13,11,14,15,0,10,
       8,10,14,10,7,1,5,7,5,13,0,6,0,12,7,13,11,3,9,7,0,15,8,5,10,6,14,1,14,4,12,7,
       10,11,15,5,10,14,8,12,13,11,0,9,3,3,13,7,1,14,8,12,9,4,14,0,4,10,2,5,6,1,9,13,
       12,14,14,3,13,2,2,6,1,10,13,2,14,14,6,11,15,1,2,15,15,10,0,6,13,9,8,10,0,8,6,4,
       13,8,7,6,0,2,7,3,3,14,12,8,6,10,6,4,5,2,1,15,2,11,1,8,1,7,7,11,2,0,0,12,
       11,11,14,1,1,7,5,7,7,10,6,1,5,13,6,12,7,7,0,9,8,8,12,0,11,10,13,9,4,6,14,2,
       0,8,14,2,4,15,10,0,7,4,14,5,10,11,3,1,4,3,13,11,5,11,15,12,14,0,15,13,1,0,8,14,
       4,11,8,2,13,1,2,0,10,9,2,1,0,8,0,1,1,10,7,2,3,12,1,2,10,7,8,7,14,6,13,7,
       8,8,7,1,9,10,1,0,11,13,11,10,5,11,2,6,9,9,12,3,2,7,1,8,6,10,15,4,14,2,3,12,
       1,10,9,4,6,8,3,4,11,6,1,5,0,11,13,10,2,5,8,3,14,9,12,10,2,10,13,4,4,12,14,8,
       13,11,11,11,12,2,13,11,0,4,13,14,8,14,15,9,2,14,8,14,15,12,1,4,1,15,11,14,12,10,10,6,
       2,8,7,12,5,9,4,7,4,14,6,11,12,0,5,13,9,9,11,2,9,6,4,15,10,0,9,0,12,3,10,2,
       2,3,3,11,10,1,8,6,5,1,5,11,14,7,14,13,1,15,6,1,2,9,7,0,12,14,14,2,13,7,10,15,
       11,8,1,11,13,13,7,6,2,1,7,0,4,8,1,12,13,0,0,6,9,1,2,7,13,5,11,0,5,10,10,9,
       9,3,11,4,14,10,9,8,8,13,8,15,13,13,12,1,8,6,15,15,11,7,13,12,9,0,10,6,12,0,8,15,
       4,13,15,4,3,5,12,9,3,4,0,6,3,1,9,9,15,15,15,15,15,15,15,15,15,15,15,15,15,15,15,15 >>

Q_GROUP_16 ==
    <<
       7,15,15,15,15,15,15,15,15,15,15,15,15,15,15,15,14,4,8,7,14,13,5,1,1,0,11,4,6,1,1,10,
       6,2,6,3,3,1,4,5,12,0,6,14,0,14,6,8,9,4,8,1,2,7,0,4,4,5,3,3,14,6,3,10,
       0,1,0,5,13,15,5,3,1,13,8,9,12,13,9,1,2,8,10,5,0,4,3,12,12,7,1,10,0,2,6,14,
       15,7,12,10,8,12,13,9,14,6,9,13,2,1,8,13,9,8,1,5,8,5,3,6,15,9,2,15,8,10,1,11,
       10,7,15,0,9,10,11,6,11,6,10,8,14,1,2,2,15,2,4,2,13,10,11,11,3,1,2,15,3,15,6,3,
       7,10,2,6,2,1,7,4,13,3,1,11,15,6,11,5,8,5,15,15,10,14,5,11,7,10,0,3,5,11,15,6,
       15,7,1,12,3,5,15,13,10,13,4,4,12,15,13,2,13,7,4,15,9,2,0,8,11,14,2,5,8,15,15,3,
       2,4,9,4,3,3,2,8,15,6,7,2,2,13,9,14,14,1,0,0,3,14,5,12,5,0,11,1,13,15,8,2,
       12,12,6,13,2,4,1,11,0,14,2,10,14,9,12,13,3,4,8,11,1,15,13,4,7,14,9,2,6,7,10,15,
       12,1,11,2,10,14,9,1,14,14,5,1,13,6,12,11,0,14,3,1,7,9,10,11,1,0,4,2,10,9,5,13,
       12,15,6,10,9,4,8,3,11,8,4,11,4,11,3,6,11,3,8,6,1,10,10,7,2,5,5,14,4,12,0,2,
       7,8,11,10,3,6,0,4,6,5,0,12,1,0,11,14,1,9,4,8,2,15,2,3,1,7,1,11,6,7,1,13,
       15,1,12,15,3,11,9,6,0,12,0,7,4,3,0,1,12,13,9,3,12,1,13,1,7,6,0,3,13,1,4,7,
       13,10,14,2,10,14,15,8,3,7,10,6,2,9,6,4,14,15,1,5,14,5,15,11,4,10,10,12,0,11,8,12,
       1,12,12,10,10,4,11,14,7,5,4,10,11,5,7,2,8,10,14,9,1,3,0,12,4,12,7,13,0,2,8,8,
       0,10,11,9,4,7,2,13,4,5,5,5,6,2,1,6,13,6,9,9,8,11,8,6,8,2,2,8,3,13,1,9,
       13,4,2,10,9,0,13,5,14,15,8,14,5,13,3,2,7,6,7,13,12,2,8,2,2,12,6,13,15,7,8,5,
       4,5,7,5,3,8,10,11,10,14,8,3,0,6,3,14,13,9,12,11,8,7,12,2,13,3,7,0,15,2,6,3,
       13,5,15,10,13,7,4,6,6,13,8,4,9,9,14,11,8,15,4,6,4,10,7,0,2,5,1,2,11,0,12,14,
       14,7,7,1,14,9,1,3,0,13,6,9,7,7,3,5,15,8,9,7,15,13,0,3,6,12,12,5,0,4,3,2,
       6,12,3,11,0,1,3,9,9,15,6,4,3,5,3,2,2,9,0,15,9,5,8,12,0,11,11,13,9,0,0,6,
       5,13,15,0,8,11,10,11,11,13,3,0,10,14,11,6,3,11,8,4,12,4,6,0,5,13,6,12,10,3,7,1,
       0,4,7,1,2,7,13,0,3,10,7,2,13,5,9,8,10,1,14,13,10,13,15,14,7,0,7,14,8,8,4,7,
       2,5,12,1,6,8,9,0,5,4,9,0,8,4,0,0,8,13,3,9,1,14,0,9,5,3,12,3,15,3,6,11,
       12,4,3,8,12,13,0,8,5,14,13,13,2,13,9,3,4,12,14,1,9,3,8,12,3,5,7,10,7,1,1,14,
       0,13,4,10,3,4,1,10,5,11,0,10,8,5,14,13,1,2,12,1,15,4,14,5,1,5,6,10,2,6,7,4,
       6,13,13,13,14,1,6,13,8,2,6,15,4,7,7,12,9,7,4,7,7,14,0,10,0,15,13,15,6,5,5,3,
       1,4,3,14,2,12,10,3,10,7,3,5,14,0,2,14,12,12,13,9,4,11,2,7,13,0,4,8,6,1,13,1,
       1,1,9,13,13,0,12,3,2,8,10,13,15,3,15,6,8,15,11,0,9,4,11,8,6,7,7,1,6,11,13,7,
       13,12,0,13,14,14,11,11,1,0,11,8,2,4,0,14,6,8,0,3,4,8,9,3,14,10,13,8,2,13,5,4,
       12,9,13,10,7,5,4,12,4,6,12,7,14,14,14,0,12,3,7,15,13,11,14,14,4,8,5,3,6,0,4,7,
       10,6,15,10,1,10,14,4,9,10,0,3,1,8,12,12,15,15,15,15,15,15,15,15,15,15,15,15,15,15,15,15 >>

PRIME_GROUP_17 ==
    <<
       15,15,15,15,15,15,15,15,15,15,15,15,15,15,15,15,12,9,0,15,13,10,10,2,2,1,6,8,12,2,3,4,
       12,4,12,6,6,2,8,11,8,0,13,12,1,12,13,1,2,9,0,2,4,14,0,8,8,10,6,7,12,12,7,4,
       0,2,0,11,11,14,10,6,3,11,1,3,9,11,2,2,5,1,4,10,0,8,7,9,8,14,3,4,0,4,13,13,
       14,15,9,5,1,9,11,3,12,13,3,10,4,3,1,11,3,0,2,11,0,10,6,13,15,2,5,15,1,4,3,7,
       4,15,14,1,3,5,6,13,6,13,5,1,12,2,4,5,14,4,8,5,11,5,7,6,6,2,5,14,7,14,12,6,
       15,4,4,12,4,2,14,9,10,6,3,7,14,13,6,11,0,11,15,15,5,12,11,6,15,4,0,6,11,7,14,13,
       14,14,3,8,6,11,15,11,5,10,8,9,9,15,10,5,10,14,9,15,2,4,1,1,7,12,4,11,1,15,14,6,
       4,9,2,8,6,6,5,1,14,12,14,4,5,11,3,13,12,2,0,0,7,12,11,8,10,1,6,3,11,15,0,5,
       9,8,13,10,4,8,3,6,1,12,5,5,13,3,9,10,6,9,1,6,3,15,10,8,15,13,2,4,12,15,5,15,
       8,3,6,5,5,13,2,3,13,12,10,3,10,13,9,6,1,12,6,2,15,3,5,6,2,0,8,5,5,2,11,11,
       9,14,13,5,2,9,0,7,7,0,9,6,9,6,6,13,6,7,0,12,3,5,4,14,4,10,11,12,9,8,0,4,
       15,1,7,4,6,12,0,8,12,10,1,8,2,1,7,12,3,2,9,0,5,14,4,6,2,14,3,6,12,14,3,11,
       14,3,9,14,7,7,2,12,1,8,0,14,8,6,0,3,9,11,2,7,8,3,10,2,14,12,0,7,10,2,8,15,
       11,5,12,5,5,13,15,0,6,15,4,12,5,2,12,9,13,14,2,11,12,11,15,6,9,5,5,8,1,7,1,8,
       3,9,9,5,4,9,7,12,14,10,9,5,6,10,14,5,1,5,13,2,2,6,1,8,9,8,15,10,0,5,1,0,
       1,5,7,2,8,14,5,10,8,10,10,10,12,4,2,13,10,13,3,3,1,7,0,13,0,4,5,0,7,10,3,3,
       10,8,5,5,2,1,10,11,13,15,1,12,11,10,6,4,14,12,15,11,8,5,0,4,5,8,13,11,14,15,0,10,
       8,10,14,10,7,1,5,7,5,13,0,6,0,12,7,13,11,3,9,7,0,15,8,5,10,6,14,1,14,4,12,7,
       10,11,15,5,10,14,8,12,13,11,0,9,3,3,13,7,1,14,8,12,9,4,14,0,4,10,2,5,6,1,9,13,
       12,14,14,3,13,2,2,6,1,10,13,2,14,14,6,11,15,1,2,15,15,10,0,6,13,9,8,10,0,8,6,4,
       13,8,7,6,0,2,7,3,3,14,12,8,6,10,6,4,5,2,1,15,2,11,1,8,1,7,7,11,2,0,0,12,
       11,11,14,1,1,7,5,7,7,10,6,1,5,13,6,12,7,7,0,9,8,8,12,0,11,10,13,9,4,6,14,2,
       0,8,14,2,4,15,10,0,7,4,14,5,10,11,3,1,4,3,13,11,5,11,15,12,14,0,15,13,1,0,8,14,
       4,11,8,2,13,1,2,0,10,9,2,1,0,8,0,1,1,10,7,2,3,12,1,2,10,7,8,7,14,6,13,7,
       8,8,7,1,9,10,1,0,11,13,11,10,5,11,2,6,9,9,12,3,2,7,1,8,6,10,15,4,14,2,3,12,
       1,10,9,4,6,8,3,4,11,6,1,5,0,11,13,10,2,5,8,3,14,9,12,10,2,10,13,4,4,12,14,8,
       13,11,11,11,12,2,13,11,0,4,13,14,8,14,15,9,2,14,8,14,15,12,1,4,1,15,11,14,12,10,10,6,
       2,8,7,12,5,9,4,7,4,14,6,11,12,0,5,13,9,9,11,2,9,6,4,15,10,0,9,0,12,3,10,2,
       2,3,3,11,10,1,8,6,5,1,5,11,14,7,14,13,1,15,6,1,2,9,7,0,12,14,14,2,13,7,10,15,
       11,8,1,11,13,13,7,6,2,1,7,0,4,8,1,12,13,0,0,6,9,1,2,7,13,5,11,0,5,10,10,9,
       9,3,11,4,14,10,9,8,8,13,8,15,13,13,12,1,8,6,15,15,11,7,13,12,9,0,10,6,12,0,8,15,
       4,13,15,4,3,5,12,9,3,4,0,2,8,4,9,2,3,6,12,3,15,10,11,4,13,2,7,12,7,0,2,6,
       12,1,13,4,13,12,11,2,6,0,2,6,4,6,13,14,12,9,7,5,1,14,7,6,3,13,11,10,3,7,11,13,
       15,8,15,15,9,4,0,6,10,13,9,14,5,3,0,14,14,5,13,11,3,8,2,15,4,1,3,0,0,1,10,14,
       11,0,6,10,5,3,14,13,9,0,2,7,13,8,3,1,1,7,9,7,2,7,11,0,8,6,5,10,8,9,1,8,
       13,10,3,14,13,11,14,11,12,15,9,11,1,4,14,13,4,4,12,14,6,12,11,10,12,14,13,4,11,11,1,11,
       13,11,7,15,1,4,4,7,14,6,12,12,2,5,4,11,3,3,2,0,5,1,5,1,2,11,13,7,10,15,4,2,
       6,15,11,8,15,4,0,1,3,7,8,12,13,2,11,15,5,9,8,3,12,10,0,1,12,6,4,11,9,2,14,12,
       15,0,3,2,14,10,1,5,13,1,7,2,1,13,0,3,15,4,8,2,13,7,12,14,6,14,7,4,15,14,15,6,
       13,5,5,14,7,0,2,15,4,6,9,8,0,12,8,2,11,5,10,8,4,0,3,1,9,0,0,11,1,12,9,14,
       5,9,14,7,12,9,7,15,11,14,12,7,14,8,15,3,2,3,10,9,7,10,7,14,3,6,12,12,8,8,11,14,
       0,15,1,13,4,5,11,7,15,15,5,8,5,10,12,5,4,11,13,4,0,7,11,2,2,11,4,1,5,4,10,10,
       12,12,8,15,6,13,7,14,11,15,4,8,14,1,13,8,1,4,12,12,5,14,13,2,0,15,8,0,3,7,14,0,
       10,7,9,7,1,5,14,14,15,2,9,11,14,3,2,8,0,6,10,1,13,5,8,11,11,7,12,5,13,10,7,6,
       15,5,5,0,10,10,3,13,8,10,1,15,11,15,15,0,14,11,1,9,12,12,11,1,10,3,1,3,13,5,5,12,
       13,10,5,6,12,9,14,12,2,14,15,2,9,6,3,2,3,8,7,15,14,8,13,7,6,14,3,12,0,4,6,8,
       0,4,3,14,8,15,6,6,3,15,4,8,6,0,14,14,1,2,11,15,2,13,5,11,0,11,7,4,7,4,13,6,
       14,6,9,4,15,9,1,14,6,13,12,12,4,0,2,4,15,15,15,15,15,15,15,15,15,15,15,15,15,15,15,15 >>

Q_GROUP_17 ==
    <<
       7,15,15,15,15,15,15,15,15,15,15,15,15,15,15,15,14,4,8,7,14,13,5,1,1,0,11,4,6,1,1,10,
       6,2,6,3,3,1,4,5,12,0,6,14,0,14,6,8,9,4,8,1,2,7,0,4,4,5,3,3,14,6,3,10,
       0,1,0,5,13,15,5,3,1,13,8,9,12,13,9,1,2,8,10,5,0,4,3,12,12,7,1,10,0,2,6,14,
       15,7,12,10,8,12,13,9,14,6,9,13,2,1,8,13,9,8,1,5,8,5,3,6,15,9,2,15,8,10,1,11,
       10,7,15,0,9,10,11,6,11,6,10,8,14,1,2,2,15,2,4,2,13,10,11,11,3,1,2,15,3,15,6,3,
       7,10,2,6,2,1,7,4,13,3,1,11,15,6,11,5,8,5,15,15,10,14,5,11,7,10,0,3,5,11,15,6,
       15,7,1,12,3,5,15,13,10,13,4,4,12,15,13,2,13,7,4,15,9,2,0,8,11,14,2,5,8,15,15,3,
       2,4,9,4,3,3,2,8,15,6,7,2,2,13,9,14,14,1,0,0,3,14,5,12,5,0,11,1,13,15,8,2,
       12,12,6,13,2,4,1,11,0,14,2,10,14,9,12,13,3,4,8,11,1,15,13,4,7,14,9,2,6,7,10,15,
       12,1,11,2,10,14,9,1,14,14,5,1,13,6,12,11,0,14,3,1,7,9,10,11,1,0,4,2,10,9,5,13,
       12,15,6,10,9,4,8,3,11,8,4,11,4,11,3,6,11,3,8,6,1,10,10,7,2,5,5,14,4,12,0,2,
       7,8,11,10,3,6,0,4,6,5,0,12,1,0,11,14,1,9,4,8,2,15,2,3,1,7,1,11,6,7,1,13,
       15,1,12,15,3,11,9,6,0,12,0,7,4,3,0,1,12,13,9,3,12,1,13,1,7,6,0,3,13,1,4,7,
       13,10,14,2,10,14,15,8,3,7,10,6,2,9,6,4,14,15,1,5,14,5,15,11,4,10,10,12,0,11,8,12,
       1,12,12,10,10,4,11,14,7,5,4,10,11,5,7,2,8,10,14,9,1,3,0,12,4,12,7,13,0,2,8,8,
       0,10,11,9,4,7,2,13,4,5,5,5,6,2,1,6,13,6,9,9,8,11,8,6,8,2,2,8,3,13,1,9,
       13,4,2,10,9,0,13,5,14,15,8,14,5,13,3,2,7,6,7,13,12,2,8,2,2,12,6,13,15,7,8,5,
       4,5,7,5,3,8,10,11,10,14,8,3,0,6,3,14,13,9,12,11,8,7,12,2,13,3,7,0,15,2,6,3,
       13,5,15,10,13,7,4,6,6,13,8,4,9,9,14,11,8,15,4,6,4,10,7,0,2,5,1,2,11,0,12,14,
       14,7,7,1,14,9,1,3,0,13,6,9,7,7,3,5,15,8,9,7,15,13,0,3,6,12,12,5,0,4,3,2,
       6,12,3,11,0,1,3,9,9,15,6,4,3,5,3,2,2,9,0,15,9,5,8,12,0,11,11,13,9,0,0,6,
       5,13,15,0,8,11,10,11,11,13,3,0,10,14,11,6,3,11,8,4,12,4,6,0,5,13,6,12,10,3,7,1,
       0,4,7,1,2,7,13,0,3,10,7,2,13,5,9,8,10,1,14,13,10,13,15,14,7,0,7,14,8,8,4,7,
       2,5,12,1,6,8,9,0,5,4,9,0,8,4,0,0,8,13,3,9,1,14,0,9,5,3,12,3,15,3,6,11,
       12,4,3,8,12,13,0,8,5,14,13,13,2,13,9,3,4,12,14,1,9,3,8,12,3,5,7,10,7,1,1,14,
       0,13,4,10,3,4,1,10,5,11,0,10,8,5,14,13,1,2,12,1,15,4,14,5,1,5,6,10,2,6,7,4,
       6,13,13,13,14,1,6,13,8,2,6,15,4,7,7,12,9,7,4,7,7,14,0,10,0,15,13,15,6,5,5,3,
       1,4,3,14,2,12,10,3,10,7,3,5,14,0,2,14,12,12,13,9,4,11,2,7,13,0,4,8,6,1,13,1,
       1,1,9,13,13,0,12,3,2,8,10,13,15,3,15,6,8,15,11,0,9,4,11,8,6,7,7,1,6,11,13,7,
       13,12,0,13,14,14,11,11,1,0,11,8,2,4,0,14,6,8,0,3,4,8,9,3,14,10,13,8,2,13,5,4,
       12,9,13,10,7,5,4,12,4,6,12,7,14,14,14,0,12,3,7,15,13,11,14,14,4,8,5,3,6,0,4,7,
       10,6,15,10,1,10,14,4,9,10,0,1,4,2,4,9,1,11,6,1,15,13,5,10,6,9,3,14,3,8,1,3,
       6,0,14,10,6,14,5,9,3,0,1,3,2,3,6,15,6,4,11,10,8,15,3,11,1,14,13,13,1,11,13,14,
       15,12,7,15,12,10,0,3,5,6,12,15,2,9,8,7,7,2,14,13,9,12,1,7,10,0,9,8,0,0,13,7,
       5,8,3,5,2,9,15,6,12,8,1,3,14,12,1,8,8,11,12,11,9,3,13,8,4,3,2,13,4,4,8,12,
       6,13,1,15,6,13,15,5,14,7,12,13,8,10,7,6,10,2,6,7,3,6,5,13,6,7,6,10,5,13,8,13,
       14,13,11,15,8,10,2,3,15,3,6,6,1,2,10,5,9,9,9,0,2,8,10,8,9,5,14,11,13,7,10,1,
       3,7,13,12,7,10,0,0,9,11,12,6,6,9,5,15,10,12,12,1,14,5,0,0,14,3,2,5,12,9,7,6,
       7,8,1,9,7,5,0,10,14,8,11,9,0,14,8,1,15,10,4,1,6,11,14,7,3,7,3,10,7,15,7,11,
       6,10,10,15,3,8,1,7,10,3,4,12,0,6,4,1,5,10,13,4,2,0,1,8,12,8,0,5,8,14,4,15,
       2,12,15,3,14,4,11,15,13,15,6,3,15,4,7,9,9,1,13,4,11,13,3,15,1,11,6,6,4,4,5,15,
       0,7,8,14,10,2,13,11,15,15,10,12,2,13,6,2,10,5,14,10,0,3,13,9,1,5,10,0,10,10,5,5,
       6,6,4,7,11,6,11,15,5,15,10,4,7,0,14,12,0,10,6,6,2,15,6,9,0,7,12,0,1,11,15,0,
       5,3,12,11,8,10,15,7,7,9,4,13,15,1,9,4,0,3,5,0,14,10,12,5,13,11,14,2,14,13,3,11,
       7,10,10,8,5,5,1,14,12,5,0,15,13,15,15,8,7,5,8,12,14,6,5,8,13,1,8,9,14,10,10,14,
       6,13,2,11,6,4,15,6,1,7,7,9,4,11,1,9,1,12,3,15,15,4,6,11,11,7,1,14,0,2,3,4,
       0,2,1,15,4,7,11,3,1,15,10,4,3,0,7,7,0,9,5,15,9,6,10,13,8,5,11,10,3,10,6,11,
       7,3,4,10,7,12,8,15,3,6,14,6,2,0,1,2,7,15,15,15,15,15,15,15,15,15,15,15,15,15,15,15 >>

PRIME_GROUP_18 ==
    <<
       15,15,15,15,15,15,15,15,15,15,15,15,15,15,15,15,12,9,0,15,13,10,10,2,2,1,6,8,12,2,3,4,
       12,4,12,6,6,2,8,11,8,0,13,12,1,12,13,1,2,9,0,2,4,14,0,8,8,10,6,7,12,12,7,4,
       0,2,0,11,11,14,10,6,3,11,1,3,9,11,2,2,5,1,4,10,0,8,7,9,8,14,3,4,0,4,13,13,
       14,15,9,5,1,9,11,3,12,13,3,10,4,3,1,11,3,0,2,11,0,10,6,13,15,2,5,15,1,4,3,7,
       4,15,14,1,3,5,6,13,6,13,5,1,12,2,4,5,14,4,8,5,11,5,7,6,6,2,5,14,7,14,12,6,
       15,4,4,12,4,2,14,9,10,6,3,7,14,13,6,11,0,11,15,15,5,12,11,6,15,4,0,6,11,7,14,13,
       14,14,3,8,6,11,15,11,5,10,8,9,9,15,10,5,10,14,9,15,2,4,1,1,7,12,4,11,1,15,14,6,
       4,9,2,8,6,6,5,1,14,12,14,4,5,11,3,13,12,2,0,0,7,12,11,8,10,1,6,3,11,15,0,5,
       9,8,13,10,4,8,3,6,1,12,5,5,13,3,9,10,6,9,1,6,3,15,10,8,15,13,2,4,12,15,5,15,
       8,3,6,5,5,13,2,3,13,12,10,3,10,13,9,6,1,12,6,2,15,3,5,6,2,0,8,5,5,2,11,11,
       9,14,13,5,2,9,0,7,7,0,9,6,9,6,6,13,6,7,0,12,3,5,4,14,4,10,11,12,9,8,0,4,
       15,1,7,4,6,12,0,8,12,10,1,8,2,1,7,12,3,2,9,0,5,14,4,6,2,14,3,6,12,14,3,11,
       14,3,9,14,7,7,2,12,1,8,0,14,8,6,0,3,9,11,2,7,8,3,10,2,14,12,0,7,10,2,8,15,
       11,5,12,5,5,13,15,0,6,15,4,12,5,2,12,9,13,14,2,11,12,11,15,6,9,5,5,8,1,7,1,8,
       3,9,9,5,4,9,7,12,14,10,9,5,6,10,14,5,1,5,13,2,2,6,1,8,9,8,15,10,0,5,1,0,
       1,5,7,2,8,14,5,10,8,10,10,10,12,4,2,13,10,13,3,3,1,7,0,13,0,4,5,0,7,10,3,3,
       10,8,5,5,2,1,10,11,13,15,1,12,11,10,6,4,14,12,15,11,8,5,0,4,5,8,13,11,14,15,0,10,
       8,10,14,10,7,1,5,7,5,13,0,6,0,12,7,13,11,3,9,7,0,15,8,5,10,6,14,1,14,4,12,7,
       10,11,15,5,10,14,8,12,13,11,0,9,3,3,13,7,1,14,8,12,9,4,14,0,4,10,2,5,6,1,9,13,
       12,14,14,3,13,2,2,6,1,10,13,2,14,14,6,11,15,1,2,15,15,10,0,6,13,9,8,10,0,8,6,4,
       13,8,7,6,0,2,7,3,3,14,12,8,6,10,6,4,5,2,1,15,2,11,1,8,1,7,7,11,2,0,0,12,
       11,11,14,1,1,7,5,7,7,10,6,1,5,13,6,12,7,7,0,9,8,8,12,0,11,10,13,9,4,6,14,2,
       0,8,14,2,4,15,10,0,7,4,14,5,10,11,3,1,4,3,13,11,5,11,15,12,14,0,15,13,1,0,8,14,
       4,11,8,2,13,1,2,0,10,9,2,1,0,8,0,1,1,10,7,2,3,12,1,2,10,7,8,7,14,6,13,7,
       8,8,7,1,9,10,1,0,11,13,11,10,5,11,2,6,9,9,12,3,2,7,1,8,6,10,15,4,14,2,3,12,
       1,10,9,4,6,8,3,4,11,6,1,5,0,11,13,10,2,5,8,3,14,9,12,10,2,10,13,4,4,12,14,8,
       13,11,11,11,12,2,13,11,0,4,13,14,8,14,15,9,2,14,8,14,15,12,1,4,1,15,11,14,12,10,10,6,
       2,8,7,12,5,9,4,7,4,14,6,11,12,0,5,13,9,9,11,2,9,6,4,15,10,0,9,0,12,3,10,2,
       2,3,3,11,10,1,8,6,5,1,5,11,14,7,14,13,1,15,6,1,2,9,7,0,12,14,14,2,13,7,10,15,
       11,8,1,11,13,13,7,6,2,1,7,0,4,8,1,12,13,0,0,6,9,1,2,7,13,5,11,0,5,10,10,9,
       9,3,11,4,14,10,9,8,8,13,8,15,13,13,12,1,8,6,15,15,11,7,13,12,9,0,10,6,12,0,8,15,
       4,13,15,4,3,5,12,9,3,4,0,2,8,4,9,2,3,6,12,3,15,10,11,4,13,2,7,12,7,0,2,6,
       12,1,13,4,13,12,11,2,6,0,2,6,4,6,13,14,12,9,7,5,1,14,7,6,3,13,11,10,3,7,11,13,
       15,8,15,15,9,4,0,6,10,13,9,14,5,3,0,14,14,5,13,11,3,8,2,15,4,1,3,0,0,1,10,14,
       11,0,6,10,5,3,14,13,9,0,2,7,13,8,3,1,1,7,9,7,2,7,11,0,8,6,5,10,8,9,1,8,
       13,10,3,14,13,11,14,11,12,15,9,11,1,4,14,13,4,4,12,14,6,12,11,10,12,14,13,4,11,11,1,11,
       13,11,7,15,1,4,4,7,14,6,12,12,2,5,4,11,3,3,2,0,5,1,5,1,2,11,13,7,10,15,4,2,
       6,15,11,8,15,4,0,1,3,7,8,12,13,2,11,15,5,9,8,3,12,10,0,1,12,6,4,11,9,2,14,12,
       15,0,3,2,14,10,1,5,13,1,7,2,1,13,0,3,15,4,8,2,13,7,12,14,6,14,7,4,15,14,15,6,
       13,5,5,14,7,0,2,15,4,6,9,8,0,12,8,2,11,5,10,8,4,0,3,1,9,0,0,11,1,12,9,14,
       5,9,14,7,12,9,7,15,11,14,12,7,14,8,15,3,2,3,10,9,7,10,7,14,3,6,12,12,8,8,11,14,
       0,15,1,13,4,5,11,7,15,15,5,8,5,10,12,5,4,11,13,4,0,7,11,2,2,11,4,1,5,4,10,10,
       12,12,8,15,6,13,7,14,11,15,4,8,14,1,13,8,1,4,12,12,5,14,13,2,0,15,8,0,3,7,14,0,
       10,7,9,7,1,5,14,14,15,2,9,11,14,3,2,8,0,6,10,1,13,5,8,11,11,7,12,5,13,10,7,6,
       15,5,5,0,10,10,3,13,8,10,1,15,11,15,15,0,14,11,1,9,12,12,11,1,10,3,1,3,13,5,5,12,
       13,10,5,6,12,9,14,12,2,14,15,2,9,6,3,2,3,8,7,15,14,8,13,7,6,14,3,12,0,4,6,8,
       0,4,3,14,8,15,6,6,3,15,4,8,6,0,14,14,1,2,11,15,2,13,5,11,0,11,7,4,7,4,13,6,
       14,6,9,4,15,9,1,14,6,13,11,14,1,1,5,9,7,4,10,3,9,2,6,15,1,2,15,14,14,5,14,4,
       3,8,7,7,7,12,11,6,10,9,3,2,13,15,8,12,13,8,11,14,12,4,13,0,7,3,11,9,3,1,11,10,
       3,11,12,8,3,2,11,6,8,13,9,13,13,3,0,0,7,4,1,15,10,7,11,15,8,10,15,12,4,7,14,13,
       2,5,7,6,15,6,9,3,6,11,10,4,2,4,6,6,3,10,10,11,6,3,9,12,5,10,14,4,15,5,6,8,
       3,4,2,3,11,4,7,4,2,11,15,1,12,9,7,8,2,3,8,15,1,6,12,11,14,3,9,13,6,5,2,13,
       14,3,15,13,11,8,11,14,15,12,8,4,8,10,13,9,2,2,2,2,2,14,0,4,10,4,0,3,7,12,0,7,
       1,3,14,11,5,7,10,8,1,10,2,3,15,0,12,7,3,4,7,3,15,12,6,4,6,12,14,10,3,0,6,11,
       4,11,12,11,12,8,8,6,2,15,8,3,8,5,13,13,15,10,9,13,4,11,7,15,10,2,12,0,8,7,14,8,
       7,9,6,8,3,3,0,3,14,13,5,11,13,13,3,10,0,6,2,11,3,12,15,5,11,3,10,2,7,8,10,6,
       6,13,2,10,1,3,15,8,3,15,4,4,15,8,2,13,13,15,3,1,0,14,14,0,7,4,10,11,6,10,3,6,
       4,5,9,7,14,8,9,9,10,0,2,5,5,13,12,1,6,4,15,3,1,12,12,5,0,8,4,6,8,5,1,13,
       15,9,10,11,4,8,1,9,5,13,14,13,7,14,10,1,11,1,13,5,1,0,11,13,7,14,14,7,4,13,7,3,
       15,10,15,3,6,11,12,3,1,14,12,15,10,2,6,8,3,5,9,0,4,6,15,4,14,11,8,7,9,15,9,2,
       4,0,0,9,4,3,8,11,4,8,1,12,6,12,13,7,8,8,9,10,0,0,2,14,13,5,14,14,3,8,2,11,
       12,9,1,9,0,13,10,6,15,12,0,2,6,14,4,7,9,5,5,8,14,4,4,7,5,6,7,7,14,9,10,10,
       9,14,3,0,5,0,14,2,7,6,5,6,9,4,13,15,12,8,1,15,5,6,14,8,8,0,11,9,6,14,7,1,
       6,0,12,9,8,0,13,13,9,8,14,13,13,3,13,15,15,15,15,15,15,15,15,15,15,15,15,15,15,15,15,15 >>

Q_GROUP_18 ==
    <<
       7,15,15,15,15,15,15,15,15,15,15,15,15,15,15,15,14,4,8,7,14,13,5,1,1,0,11,4,6,1,1,10,
       6,2,6,3,3,1,4,5,12,0,6,14,0,14,6,8,9,4,8,1,2,7,0,4,4,5,3,3,14,6,3,10,
       0,1,0,5,13,15,5,3,1,13,8,9,12,13,9,1,2,8,10,5,0,4,3,12,12,7,1,10,0,2,6,14,
       15,7,12,10,8,12,13,9,14,6,9,13,2,1,8,13,9,8,1,5,8,5,3,6,15,9,2,15,8,10,1,11,
       10,7,15,0,9,10,11,6,11,6,10,8,14,1,2,2,15,2,4,2,13,10,11,11,3,1,2,15,3,15,6,3,
       7,10,2,6,2,1,7,4,13,3,1,11,15,6,11,5,8,5,15,15,10,14,5,11,7,10,0,3,5,11,15,6,
       15,7,1,12,3,5,15,13,10,13,4,4,12,15,13,2,13,7,4,15,9,2,0,8,11,14,2,5,8,15,15,3,
       2,4,9,4,3,3,2,8,15,6,7,2,2,13,9,14,14,1,0,0,3,14,5,12,5,0,11,1,13,15,8,2,
       12,12,6,13,2,4,1,11,0,14,2,10,14,9,12,13,3,4,8,11,1,15,13,4,7,14,9,2,6,7,10,15,
       12,1,11,2,10,14,9,1,14,14,5,1,13,6,12,11,0,14,3,1,7,9,10,11,1,0,4,2,10,9,5,13,
       12,15,6,10,9,4,8,3,11,8,4,11,4,11,3,6,11,3,8,6,1,10,10,7,2,5,5,14,4,12,0,2,
       7,8,11,10,3,6,0,4,6,5,0,12,1,0,11,14,1,9,4,8,2,15,2,3,1,7,1,11,6,7,1,13,
       15,1,12,15,3,11,9,6,0,12,0,7,4,3,0,1,12,13,9,3,12,1,13,1,7,6,0,3,13,1,4,7,
       13,10,14,2,10,14,15,8,3,7,10,6,2,9,6,4,14,15,1,5,14,5,15,11,4,10,10,12,0,11,8,12,
       1,12,12,10,10,4,11,14,7,5,4,10,11,5,7,2,8,10,14,9,1,3,0,12,4,12,7,13,0,2,8,8,
       0,10,11,9,4,7,2,13,4,5,5,5,6,2,1,6,13,6,9,9,8,11,8,6,8,2,2,8,3,13,1,9,
       13,4,2,10,9,0,13,5,14,15,8,14,5,13,3,2,7,6,7,13,12,2,8,2,2,12,6,13,15,7,8,5,
       4,5,7,5,3,8,10,11,10,14,8,3,0,6,3,14,13,9,12,11,8,7,12,2,13,3,7,0,15,2,6,3,
       13,5,15,10,13,7,4,6,6,13,8,4,9,9,14,11,8,15,4,6,4,10,7,0,2,5,1,2,11,0,12,14,
       14,7,7,1,14,9,1,3,0,13,6,9,7,7,3,5,15,8,9,7,15,13,0,3,6,12,12,5,0,4,3,2,
       6,12,3,11,0,1,3,9,9,15,6,4,3,5,3,2,2,9,0,15,9,5,8,12,0,11,11,13,9,0,0,6,
       5,13,15,0,8,11,10,11,11,13,3,0,10,14,11,6,3,11,8,4,12,4,6,0,5,13,6,12,10,3,7,1,
       0,4,7,1,2,7,13,0,3,10,7,2,13,5,9,8,10,1,14,13,10,13,15,14,7,0,7,14,8,8,4,7,
       2,5,12,1,6,8,9,0,5,4,9,0,8,4,0,0,8,13,3,9,1,14,0,9,5,3,12,3,15,3,6,11,
       12,4,3,8,12,13,0,8,5,14,13,13,2,13,9,3,4,12,14,1,9,3,8,12,3,5,7,10,7,1,1,14,
       0,13,4,10,3,4,1,10,5,11,0,10,8,5,14,13,1,2,12,1,15,4,14,5,1,5,6,10,2,6,7,4,
       6,13,13,13,14,1,6,13,8,2,6,15,4,7,7,12,9,7,4,7,7,14,0,10,0,15,13,15,6,5,5,3,
       1,4,3,14,2,12,10,3,10,7,3,5,14,0,2,14,12,12,13,9,4,11,2,7,13,0,4,8,6,1,13,1,
       1,1,9,13,13,0,12,3,2,8,10,13,15,3,15,6,8,15,11,0,9,4,11,8,6,7,7,1,6,11,13,7,
       13,12,0,13,14,14,11,11,1,0,11,8,2,4,0,14,6,8,0,3,4,8,9,3,14,10,13,8,2,13,5,4,
       12,9,13,10,7,5,4,12,4,6,12,7,14,14,14,0,12,3,7,15,13,11,14,14,4,8,5,3,6,0,4,7,
       10,6,15,10,1,10,14,4,9,10,0,1,4,2,4,9,1,11,6,1,15,13,5,10,6,9,3,14,3,8,1,3,
       6,0,14,10,6,14,5,9,3,0,1,3,2,3,6,15,6,4,11,10,8,15,3,11,1,14,13,13,1,11,13,14,
       15,12,7,15,12,10,0,3,5,6,12,15,2,9,8,7,7,2,14,13,9,12,1,7,10,0,9,8,0,0,13,7,
       5,8,3,5,2,9,15,6,12,8,1,3,14,12,1,8,8,11,12,11,9,3,13,8,4,3,2,13,4,4,8,12,
       6,13,1,15,6,13,15,5,14,7,12,13,8,10,7,6,10,2,6,7,3,6,5,13,6,7,6,10,5,13,8,13,
       14,13,11,15,8,10,2,3,15,3,6,6,1,2,10,5,9,9,9,0,2,8,10,8,9,5,14,11,13,7,10,1,
       3,7,13,12,7,10,0,0,9,11,12,6,6,9,5,15,10,12,12,1,14,5,0,0,14,3,2,5,12,9,7,6,
       7,8,1,9,7,5,0,10,14,8,11,9,0,14,8,1,15,10,4,1,6,11,14,7,3,7,3,10,7,15,7,11,
       6,10,10,15,3,8,1,7,10,3,4,12,0,6,4,1,5,10,13,4,2,0,1,8,12,8,0,5,8,14,4,15,
       2,12,15,3,14,4,11,15,13,15,6,3,15,4,7,9,9,1,13,4,11,13,3,15,1,11,6,6,4,4,5,15,
       0,7,8,14,10,2,13,11,15,15,10,12,2,13,6,2,10,5,14,10,0,3,13,9,1,5,10,0,10,10,5,5,
       6,6,4,7,11,6,11,15,5,15,10,4,7,0,14,12,0,10,6,6,2,15,6,9,0,7,12,0,1,11,15,0,
       5,3,12,11,8,10,15,7,7,9,4,13,15,1,9,4,0,3,5,0,14,10,12,5,13,11,14,2,14,13,3,11,
       7,10,10,8,5,5,1,14,12,5,0,15,13,15,15,8,7,5,8,12,14,6,5,8,13,1,8,9,14,10,10,14,
       6,13,2,11,6,4,15,6,1,7,7,9,4,11,1,9,1,12,3,15,15,4,6,11,11,7,1,14,0,2,3,4,
       0,2,1,15,4,7,11,3,1,15,10,4,3,0,7,7,0,9,5,15,9,6,10,13,8,5,11,10,3,10,6,11,
       7,3,4,10,7,12,8,15,3,6,13,15,0,8,10,12,11,10,5,1,12,9,3,7,8,9,7,15,7,2,15,2,
       1,12,3,11,11,14,5,11,5,4,9,9,6,15,12,6,6,12,5,15,6,2,6,8,3,9,13,12,9,8,13,13,
       1,13,14,4,1,9,5,11,4,6,12,14,14,9,8,0,3,10,0,15,13,3,13,15,12,5,7,14,2,3,15,6,
       9,2,11,11,7,11,4,9,11,5,13,2,1,2,3,3,1,13,5,5,11,1,12,14,2,13,7,2,7,10,11,4,
       1,10,1,1,13,10,3,10,1,5,15,8,14,4,11,12,1,1,12,7,8,11,6,5,15,1,12,14,11,2,9,6,
       15,1,15,14,13,12,5,15,7,14,4,2,4,5,6,12,9,1,1,1,1,7,0,2,5,2,0,1,11,14,0,3,
       8,9,15,5,10,11,13,4,0,13,1,1,15,8,6,3,9,10,3,9,15,14,3,2,3,6,7,5,1,8,3,5,
       10,5,14,5,14,4,4,3,1,7,12,1,12,2,14,14,15,13,4,14,10,5,11,15,13,1,6,0,4,3,15,4,
       3,12,11,4,1,9,8,1,15,6,10,13,14,14,9,13,0,3,1,5,9,14,7,10,13,9,13,1,3,12,5,3,
       3,6,9,5,0,9,15,12,1,15,10,2,7,12,1,6,14,15,9,8,8,7,7,0,3,10,5,5,11,5,1,11,
       2,2,12,11,15,4,4,12,13,0,1,2,10,14,14,0,11,2,7,9,8,14,6,2,8,4,2,3,4,2,8,14,
       15,12,13,5,10,4,0,12,10,14,15,6,11,15,5,0,13,8,14,10,8,8,5,14,11,15,7,3,10,6,11,9,
       15,13,7,9,11,5,14,1,8,15,6,7,13,1,3,4,1,10,12,8,2,3,7,10,7,5,12,3,12,15,12,9,
       2,0,0,4,10,1,12,5,10,4,0,14,3,6,6,11,12,4,4,13,0,0,1,7,6,10,15,7,1,12,1,5,
       14,4,8,12,8,6,13,3,7,14,0,1,3,7,2,3,12,10,10,12,7,2,2,3,10,11,3,11,15,4,13,5,
       4,15,1,8,2,8,7,1,3,11,2,11,4,10,6,15,14,4,0,15,10,11,7,4,4,0,5,12,11,7,3,8,
       11,0,6,4,12,0,6,14,12,12,7,6,14,9,14,15,15,15,15,15,15,15,15,15,15,15,15,15,15,15,15,15 >>

\* the six implementations of the trait, each with the constants its
\* prime_modulus() and sophie_garmain_prime() return
MODPGroup5_q_of_14 ==
    [prime_modulus |-> PRIME_GROUP_5, sophie_garmain_prime |-> Q_GROUP_14]

MODPGroup5 ==
    [prime_modulus |-> PRIME_GROUP_5, sophie_garmain_prime |-> Q_GROUP_5]

MODPGroup14 ==
    [prime_modulus |-> PRIME_GROUP_14, sophie_garmain_prime |-> Q_GROUP_14]

MODPGroup15 ==
    [prime_modulus |-> PRIME_GROUP_15, sophie_garmain_prime |-> Q_GROUP_15]

MODPGroup16 ==
    [prime_modulus |-> PRIME_GROUP_16, sophie_garmain_prime |-> Q_GROUP_16]

MODPGroup17 ==
    [prime_modulus |-> PRIME_GROUP_17, sophie_garmain_prime |-> Q_GROUP_17]

MODPGroup18 ==
    [prime_modulus |-> PRIME_GROUP_18, sophie_garmain_prime |-> Q_GROUP_18]

\* a BigUint keeps no leading zero digits
BigUint_normalized(ds) ==
    IF \A i \in 1 .. Len(ds) : ds[i] = 0 THEN << >>
    ELSE LET first == CHOOSE i \in 1 .. Len(ds) :
                          ds[i] # 0 /\ \A k \in 1 .. (i - 1) : ds[k] = 0
         IN  SubSeq(ds, first, Len(ds))

\* x - BigUint::from(1u32), for x > 0: the borrow runs through the trailing zeros
BigUint_sub_one(ds) ==
    LET last == CHOOSE i \in 1 .. Len(ds) :
                    ds[i] # 0 /\ \A k \in (i + 1) .. Len(ds) : ds[k] = 0
    IN  BigUint_normalized(
            [i \in 1 .. Len(ds) |->
                IF i < last THEN ds[i] ELSE IF i = last THEN ds[i] - 1 ELSE 15])

\* x / BigUint::from(2u32): each digit is halved and takes the low bit of the
\* digit before it
BigUint_div_two(ds) ==
    BigUint_normalized(
        [i \in 1 .. Len(ds) |->
            ((IF i = 1 THEN 0 ELSE ds[i - 1] % 2) * 16 + ds[i]) \div 2])

\* test_order::<G>(): lhs == rhs
test_order(grpG) ==
    LET left == grpG.sophie_garmain_prime
        right == BigUint_div_two(BigUint_sub_one(grpG.prime_modulus))
    IN  BigUint_normalized(left) = right

\* test_orders(): the six assertions
test_orders ==
    /\ test_order(MODPGroup5)
    /\ test_order(MODPGroup14)
    /\ test_order(MODPGroup15)
    /\ test_order(MODPGroup16)
    /\ test_order(MODPGroup17)
    /\ test_order(MODPGroup18)

\* ------------------------------------------------------------- properties
\* the subgroup order a call works with: q of the known group, (p - 1) / 2 of
\* the modulus handed to new_with
order_of_call ==
    IF fn = "PrimeGroup::new_with" THEN (IF p = 0 THEN 0 ELSE (p - 1) \div 2) ELSE q

\* C1: Diffie-Hellman identity.  With A = from_biguint(a) and B = from_biguint(b),
\* B.pow(a) and A.pow(b) are equal, and each equals from_biguint(a * b), that is
\* g^(a*b) mod p.
C1_DiffieHellman ==
    /\ s # None => s = Element_from_biguint(grp, exp_a * exp_b)
    /\ z # None => z = Element_from_biguint(grp, exp_a * exp_b)
    /\ (s # None /\ z # None) => s = z

\* both shared secrets are computed, from the exponents of the test (2 and 3),
\* and the secret is not the trivial element
C1_Witness ==
    s # None /\ z # None /\ exp_a = 2 /\ exp_b = 3 /\ s > 1

\* C2: multiplying two Elements adds their exponents:
\* from_biguint(x) * from_biguint(y) = from_biguint(x + y).
C2_MulAddsExponents ==
    lhs # None => lhs = Element_from_biguint(grp, exp_a + exp_b)

\* the doc example: x = 2, y = 3, and the product needed the reduction mod p
C2_Witness ==
    lhs # None /\ exp_a = 2 /\ exp_b = 3 /\ A * B >= prime_modulus(grp)

\* C3: every generator a search returns satisfies g^q mod p = 1 and g < 2^b,
\* and it is the candidate of the last iteration (no candidate that failed the
\* test is returned).
C3_ReturnedGeneratorQualifies ==
    pc = "done" =>
        /\ modpow(g, q, p) = 1
        /\ 0 <= g /\ g < pow2(num_bits)
        /\ g = a

\* a search that returned after rejecting at least one candidate
C3_Witness ==
    pc = "done" /\ draws > 1 /\ g > 1

\* C4: every returned generator has multiplicative order exactly q modulo p:
\* g^0 .. g^(q-1) mod p are q distinct values.
C4_GeneratesSubgroup ==
    pc = "done" => Cardinality({ modpow(g, i, p) : i \in 0 .. (q - 1) }) = q

\* C5: every returned {p, q, g} has 1 < g < p.
C5_GeneratorInRange ==
    pc = "done" => (1 < g /\ g < p)

\* C6: a group built from a known group G has a generator different from
\* G::generator(): the searches of PrimeGroup::new and SubGroup::new never
\* return the default generator.
C6_DiffersFromDefault ==
    (pc = "done" /\ fn \in {"PrimeGroup::new", "SubGroup::new"}) =>
        g # generator(G)

\* the default generator was drawn, it passes the subgroup test, and the
\* search is still looping
C6_Witness ==
    /\ pc = "loop" /\ fn = "PrimeGroup::new"
    /\ a = generator(G) /\ modpow(a, q, p) = 1

\* C7: a requested bit length below 2 panics with the parameter assertion at
\* every entry point, before any candidate is drawn and without a group.
C7_FewBitsRejected ==
    (fn # "none" /\ num_bits < 2) =>
        /\ pc = "panicked" /\ err = "InvalidParameters"
        /\ draws = 0 /\ a = None /\ g = None

\* new_with with a safe prime and one bit
C7_Witness ==
    /\ fn = "PrimeGroup::new_with" /\ num_bits = 1 /\ is_safe_prime(p)
    /\ pc = "panicked"

\* C8 as stated: a bit length above bitlength(q) is rejected at every entry
\* point (for new_with, q is defined when p is a safe prime).
C8_Original ==
    ( /\ fn # "none"
      /\ fn = "PrimeGroup::new_with" => is_safe_prime(p)
      /\ num_bits > bits(order_of_call) ) =>
        pc = "panicked" /\ err = "InvalidParameters"

\* C8 amended: PrimeGroup::new and PrimeGroup::new_with reject a bit length
\* above bitlength(p), SubGroup::new rejects one above bitlength(q); the bit
\* length bitlength(p) = bitlength(q) + 1 is rejected by SubGroup::new only,
\* PrimeGroup::new and new_with start their search with it.
C8_Amended ==
    /\ (fn \in {"PrimeGroup::new", "PrimeGroup::new_with"} /\ num_bits > bits(p)) =>
          /\ pc = "panicked" /\ err = "InvalidParameters"
          /\ draws = 0 /\ g = None
    /\ (fn = "SubGroup::new" /\ num_bits > bits(q)) =>
          /\ pc = "panicked" /\ err = "InvalidParameters"
          /\ draws = 0 /\ g = None
    /\ ( /\ fn \in {"PrimeGroup::new", "PrimeGroup::new_with"}
         /\ fn = "PrimeGroup::new_with" => is_safe_prime(p)
         /\ num_bits >= 2 /\ num_bits = bits(p) ) =>
          pc \in {"loop", "done"}

\* PrimeGroup::new asked for one bit more than the modulus has
C8_Witness ==
    fn = "PrimeGroup::new" /\ num_bits = bits(p) + 1 /\ pc = "panicked"

\* C9 as stated: new_with with a p that is not a safe prime fails with the
\* invalid-modulus assertion, whatever the bit length.
C9_Original ==
    (fn = "PrimeGroup::new_with" /\ ~is_safe_prime(p)) =>
        /\ pc = "panicked" /\ err = "InvalidModulus"
        /\ draws = 0 /\ g = None

\* C9 amended: new_with with a p that is not a safe prime never draws a
\* candidate and returns no group; the panic is the invalid-modulus assertion
\* when the bit length passes the two assertions before it (2 <= b <=
\* bitlength(p)), and the parameter assertion otherwise.
C9_Amended ==
    (fn = "PrimeGroup::new_with" /\ ~is_safe_prime(p)) =>
        /\ pc = "panicked"
        /\ draws = 0 /\ a = None /\ g = None
        /\ err = IF 2 <= num_bits /\ num_bits <= bits(p)
                 THEN "InvalidModulus" ELSE "InvalidParameters"

\* a prime p whose (p - 1) / 2 is composite, with a valid bit length
C9_Witness ==
    /\ fn = "PrimeGroup::new_with"
    /\ is_prime(p) /\ ~is_prime(p \div 2)
    /\ 2 <= num_bits /\ num_bits <= bits(p)
    /\ pc = "panicked" /\ err = "InvalidModulus"

\* C10 as stated: the search has an iteration cap, so a search that is in its
\* loop eventually leaves it, whatever the random source yields.
C10_Original ==
    (pc = "loop") ~> (pc # "loop")

\* C10 amended: the search has no iteration cap and no search-exhausted
\* condition.  An iteration either returns a candidate that passes the test or
\* stays in the loop, however many candidates were drawn before.
C10_Amended ==
    [][ pc = "loop" =>
          \/ pc' = "loop"
          \/ pc' = "done" /\ modpow(g', q', p') = 1 ]_vars

\* the search is still looping after MaxDraws rejected candidates
C10_Witness ==
    pc = "loop" /\ draws = MaxDraws /\ modpow(a, q, p) # 1

\* C11: every group descriptor has q = (p - 1) / 2 exactly: the six standard
\* groups (their published constants), every group of new_with, and every
\* group built from a known group, which reuses that group's p and q.
C11_SophieGermainRelation ==
    /\ test_orders
    /\ (fn = "PrimeGroup::new_with" /\ pc \in {"loop", "done"}) =>
          /\ q = (p - 1) \div 2
          /\ 2 * q + 1 = p
    /\ fn = "PrimeGroup::new" =>
          /\ p = prime_modulus(G) /\ q = sophie_garmain_prime(G)
          /\ q = (p - 1) \div 2
    /\ fn = "SubGroup::new" =>
          /\ p = prime_modulus(G) /\ q = order(G)
          /\ q = (p - 1) \div 2

\* new_with returned a group for the modulus it was given
C11_Witness ==
    pc = "done" /\ fn = "PrimeGroup::new_with" /\ p > 5 /\ g > 1

\* C12: after any sequence of from_biguint, from_str, +, -, * and pow on the
\* Elements of one group, every Element's value is in [0, p) and no operation
\* has panicked.
C12_ValueInRange ==
    /\ ~op_panicked
    /\ \A x \in Registers :
          elems[x] # None => (0 <= elems[x] /\ elems[x] < prime_modulus(grp))

\* both Elements came out of + or -, one of them is p - 1 and the other 0
C12_Witness ==
    /\ via_ring["X"] /\ via_ring["Y"]
    /\ elems["X"] = prime_modulus(grp) - 1 /\ elems["Y"] = 0

\* the number a numeral denotes, read left to right
RECURSIVE numeral_value(_, _, _)
numeral_value(str, radix, acc) ==
    IF str = << >> THEN acc
    ELSE numeral_value(Tail(str), radix, acc * radix + digit_of(Head(str)))

\* a well-formed decimal numeral: one or more decimal digits
is_decimal_numeral(str) ==
    Len(str) > 0 /\ \A i \in 1 .. Len(str) : str[i] \in {"0", "1", "2", "9"}

\* a well-formed hexadecimal numeral that is not also a decimal one: one or
\* more hexadecimal digits, a letter among them
is_hex_numeral(str) ==
    /\ Len(str) > 0
    /\ \A i \in 1 .. Len(str) : str[i] \in {"0", "1", "2", "9", "a", "f"}
    /\ \E i \in 1 .. Len(str) : str[i] \in {"a", "f"}

\* text that is no numeral in either radix: empty, or with a character that
\* is neither a digit, a sign nor an underscore in it (the letter x, a minus)
is_malformed(str) ==
    str = << >> \/ \E i \in 1 .. Len(str) : str[i] \in {"x", "-"}

\* C13 as stated: from_str returns Ok(g^n mod p) for a well-formed decimal or
\* hexadecimal numeral denoting n, and a parse error for malformed text.
C13_Original ==
    parsed # "none" =>
        /\ is_decimal_numeral(text) =>
              /\ parsed = "Ok"
              /\ parsed_value = Element_from_biguint(grp, numeral_value(text, 10, 0))
        /\ is_hex_numeral(text) =>
              /\ parsed = "Ok"
              /\ parsed_value = Element_from_biguint(grp, numeral_value(text, 16, 0))
        /\ is_malformed(text) => (parsed = "Err" /\ parsed_value = None)

\* C13 amended: from_str reads decimal only.  A well-formed decimal numeral
\* denoting n gives Ok(g^n mod p), the Element of from_biguint(n); a
\* hexadecimal numeral with a letter digit is rejected like malformed text,
\* with a parse error and no Element.
C13_Amended ==
    parsed # "none" =>
        /\ is_decimal_numeral(text) =>
              /\ parsed = "Ok"
              /\ parsed_value = Element_from_biguint(grp, numeral_value(text, 10, 0))
        /\ is_hex_numeral(text) => (parsed = "Err" /\ parsed_value = None)
        /\ is_malformed(text) => (parsed = "Err" /\ parsed_value = None)
        /\ parsed \in {"Ok", "Err"}
        /\ parsed = "Err" <=> parsed_value = None

\* a decimal numeral of MaxStrLen digits was parsed into a non-trivial Element
C13_Witness ==
    /\ parsed = "Ok" /\ is_decimal_numeral(text) /\ Len(text) = MaxStrLen
    /\ text[1] # "0" /\ parsed_value > 1

\* C14: ring round trip: for u, v in [0, p), sub(add(u, v), v) = u.
C14_AddSubRoundTrip ==
    ( /\ back # None
      /\ arg_u < prime_modulus(grp) /\ arg_v < prime_modulus(grp) ) =>
        back = arg_u

\* the sum wrapped around p, and the subtraction needed the added p
C14_Witness ==
    /\ back # None
    /\ arg_u < prime_modulus(grp) /\ arg_v < prime_modulus(grp)
    /\ arg_u + arg_v >= prime_modulus(grp) /\ sum < arg_v
    /\ prime_modulus(grp) = 47

\* C16: sub(a, b) is defined for every pair of unsigned integers: it never
\* fails and is the value (a - b) mod p of [0, p), also when b > a + p.
C16_SubTotal ==
    diff # None =>
        /\ diff # Underflow
        /\ 0 <= diff /\ diff < prime_modulus(grp)
        /\ diff = (arg_u - arg_v) % prime_modulus(grp)

\* C17: subgroup closure: in a group whose generator has g^q mod p = 1, every
\* Element made by from_biguint (from_str), * and pow alone has a value v with
\* v^q mod p = 1; + and - can leave the subgroup.
C17_SubgroupClosure ==
    modpow(generator(grp), sophie_garmain_prime(grp), prime_modulus(grp)) = 1 =>
        \A x \in Registers :
            (elems[x] # None /\ ~via_ring[x]) =>
                modpow(elems[x], sophie_garmain_prime(grp), prime_modulus(grp)) = 1

\* Y is a product or power of subgroup elements other than 1, and X, made
\* with + or -, is outside the subgroup
C17_Witness ==
    /\ modpow(generator(grp), sophie_garmain_prime(grp), prime_modulus(grp)) = 1
    /\ elems["X"] # None /\ via_ring["X"]
    /\ modpow(elems["X"], sophie_garmain_prime(grp), prime_modulus(grp)) # 1
    /\ elems["Y"] # None /\ ~via_ring["Y"] /\ elems["Y"] > 1

\* C18: the generator returned by PrimeGroup::new::<G>(num_bits) is a group
\* element other than G's default generator: g mod p # G::generator() mod p,
\* also for num_bits = bitlength(p), where a candidate can be >= p.
C18_DiffersModP ==
    (pc = "done" /\ fn = "PrimeGroup::new") =>
        g % prime_modulus(G) # generator(G) % prime_modulus(G)

\* C15: termination of the generator search: once the precondition checks have
\* passed, the sampling range [0, 2^num_bits) holds an accepted candidate, and
\* under a fair random source the loop exits and returns a group.
C15_SearchTerminates ==
    /\ [](pc = "loop" => \E cand \in RandomBits(num_bits) : accepted(cand))
    /\ (pc = "loop") ~> (pc = "done" /\ g # None /\ accepted(g))

\* a search over the smallest range returned after MaxDraws draws
C15_Witness ==
    /\ pc = "done" /\ num_bits = 2 /\ draws = MaxDraws
    /\ g # None /\ accepted(g)

====
